---- MODULE Spec2Model ----
(***************************************************************************)
(* Verification model of the RAG pipeline of fks_web (src/src/rag):        *)
(*   - FKSIntelligence.ingest_document and                                 *)
(*     EmbeddingsService.store_chunk_embedding over one database session,  *)
(*   - GoogleAIRateLimiter / GoogleAIClient.generate over the shared cache,*)
(*   - DocumentProcessor.chunk_text (sliding token window),                *)
(*   - EmbeddingsService.generate_embeddings_batch (local and remote).     *)
(* Each part has its own specification; the variables of the other parts   *)
(* stay at their initial values.                                           *)
(***************************************************************************)
EXTENDS Integers, Sequences, FiniteSets, TLC

VARIABLES
    \* ---- ingest_document / store_chunk_embedding (intelligence.py, embeddings.py)
    ipc,           \* position inside ingest_document
    n_chunks,      \* len(chunks) returned by self.processor.chunk_text(content)
    supplied,      \* TRUE when the caller passed a session
    should_close,  \* local should_close of ingest_document
    sess_open,     \* the session used by the call is open
    close_calls,   \* number of session.close() calls made by ingest_document
    committed,     \* rows of this document committed in the store
    pending,       \* rows written by the session's open transaction
    objState,      \* ORM state of doc / chunk_record objects
    k,             \* index of the chunk_record the storing loop is at
    storeResults,  \* return values of store_chunk_embedding, in call order
    \* ---- GoogleAIRateLimiter / GoogleAIClient.generate (google_ai.py)
    now,           \* the clock: [minute |-> minute bucket, day |-> day bucket]
    minuteCache,   \* cache value under the minute key of each minute bucket (0: no entry)
    dayCache,      \* cache value under the day key of each day bucket (0: no entry)
    lpc,           \* position of each worker inside generate
    lkey,          \* minute_key / day_key locals of the running limiter method
    lcnt,          \* minute_count / day_count local of record_request
    lres,          \* how the worker's last generate call ended
    genCalls,      \* number of generate calls entered so far
    netMinute,     \* generate_content calls made in each minute bucket
    netDay,        \* generate_content calls made in each day bucket
    recMinute,     \* record_request calls entered in each minute bucket
    recDay,        \* record_request calls entered in each day bucket
    \* ---- DocumentProcessor (document_processor.py)
    cpc,           \* position: "new", "ready" (constructed), "loop", "done"
    chunk_size,    \* self.chunk_size
    chunk_overlap, \* self.chunk_overlap
    text,          \* the text given to chunk_text, a sequence of characters
    tokens,        \* tokens = self.encoding.encode(cleaned text)
    loop,          \* locals of the while loop: start_idx, chunk_index, chunks
    \* ---- EmbeddingsService / LocalEmbeddings (embeddings.py, local_llm.py)
    epc,           \* position: "new", "ready", "batch", "done", "raised", "single_done", "single_raised"
    use_local,     \* self.use_local
    dimension,     \* self.dimension
    model_dim,     \* length of the vectors the configured model produces
    texts,         \* the list given to generate_embeddings_batch
    batch_size,    \* its batch_size argument
    batch_i,       \* i of  for i in range(0, len(texts), batch_size)
    embeddings,    \* the list being built and returned
    failed,        \* positions of the texts whose remote batch raised
    sent,          \* the texts given to the backend (model.encode / embeddings.create)
    embedding,     \* the vector returned by generate_embedding(texts[0])
    \* ---- EmbeddingsService.semantic_search / RetrievalService.retrieve_context
    spc,           \* position: "off", "idle", "done" (returned), "raised"
    rows,          \* document_chunks joined with documents, with the similarity to the query
    s_call,        \* the call made: [op, limit, threshold, filters]
    s_results,     \* the list returned
    s_executed,    \* session.execute(query, params) returned its rows
    \* ---- FKSIntelligence.query (intelligence.py)
    qpc,           \* position: "off", "idle", "retrieve", "rank", "generate", "log", "except", "returned"
    q_args,        \* the arguments: [symbol, doc_types, top_k, use_local]
    q_filters,     \* the filters dictionary
    q_i,           \* position of the doc_types loop
    all_results,   \* all_results
    search_log,    \* how each retrieve_context call ended
    ranked_results, \* ranked_results
    answer,        \* response of _generate_response
    gen_raised,    \* the generation backend raised
    audit,         \* QueryHistory rows committed
    q_response,    \* the dictionary returned by query
    \* ---- IntelligenceOrchestrator (orchestrator.py)
    rpc,           \* position: "off", "idle", "returned", "raised"
    r_answer,      \* result['answer'] of the query
    account_balance, \* account_balance, in cents
    available_cash, \* available_cash, in cents (0: None)
    cash_used,     \* available_cash given to _parse_recommendation
    recommendation \* the dictionary returned

ingestVars == <<ipc, n_chunks, supplied, should_close, sess_open, close_calls,
                committed, pending, objState, k, storeResults>>

limVars == <<now, minuteCache, dayCache, lpc, lkey, lcnt, lres, genCalls,
             netMinute, netDay, recMinute, recDay>>

chunkVars == <<cpc, chunk_size, chunk_overlap, text, tokens, loop>>

embVars == <<epc, use_local, dimension, model_dim, texts, batch_size, batch_i,
             embeddings, failed, sent, embedding>>

searchVars == <<spc, rows, s_call, s_results, s_executed>>

queryVars == <<qpc, q_args, q_filters, q_i, all_results, search_log, ranked_results,
               answer, gen_raised, audit, q_response>>

recVars == <<rpc, r_answer, account_balance, available_cash, cash_used, recommendation>>

VARIABLES ppc, p_symbols, p_balance, p_cash, p_i, p_calls, recommendations, p_result
portVars == <<ppc, p_symbols, p_balance, p_cash, p_i, p_calls, recommendations, p_result>>

VARIABLES call_stack, sessions, calls_done, last_call
sessionVars == <<call_stack, sessions, calls_done, last_call>>

VARIABLES kpc, k_method, k_results, k_returned
rerankVars == <<kpc, k_method, k_results, k_returned>>

VARIABLES fpc, f_results, max_tokens, f_i, context_parts, total_length, f_output
formatVars == <<fpc, f_results, max_tokens, f_i, context_parts, total_length, f_output>>

VARIABLES tpc, docs, existing_trade_ids, todo, count, newly_persisted, runs
tradeVars == <<tpc, docs, existing_trade_ids, todo, count, newly_persisted, runs>>

nonIngestVars == <<limVars, chunkVars, embVars, searchVars, queryVars, recVars, portVars, sessionVars, rerankVars, formatVars, tradeVars>>
nonLimVars == <<ingestVars, chunkVars, embVars, searchVars, queryVars, recVars, portVars, sessionVars, rerankVars, formatVars, tradeVars>>
nonChunkVars == <<ingestVars, limVars, embVars, searchVars, queryVars, recVars, portVars, sessionVars, rerankVars, formatVars, tradeVars>>
nonEmbVars == <<ingestVars, limVars, chunkVars, searchVars, queryVars, recVars, portVars, sessionVars, rerankVars, formatVars, tradeVars>>
nonSearchVars == <<ingestVars, limVars, chunkVars, embVars, queryVars, recVars, portVars, sessionVars, rerankVars, formatVars, tradeVars>>
nonQueryVars == <<ingestVars, limVars, chunkVars, embVars, searchVars, recVars, portVars, sessionVars, rerankVars, formatVars, tradeVars>>
nonRecVars == <<ingestVars, limVars, chunkVars, embVars, searchVars, queryVars, portVars, sessionVars, rerankVars, formatVars, tradeVars>>
nonPortVars == <<ingestVars, limVars, chunkVars, embVars, searchVars, queryVars, recVars, sessionVars, rerankVars, formatVars, tradeVars>>
nonSessionVars == <<ingestVars, limVars, chunkVars, embVars, searchVars, queryVars, recVars, portVars, rerankVars, formatVars, tradeVars>>
nonRerankVars == <<ingestVars, limVars, chunkVars, embVars, searchVars, queryVars, recVars, portVars, sessionVars, formatVars, tradeVars>>
nonFormatVars == <<ingestVars, limVars, chunkVars, embVars, searchVars, queryVars, recVars, portVars, sessionVars, rerankVars, tradeVars>>
nonTradeVars == <<ingestVars, limVars, chunkVars, embVars, searchVars, queryVars, recVars, portVars, sessionVars, rerankVars, formatVars>>

vars == <<ingestVars, limVars, chunkVars, embVars, searchVars, queryVars, recVars, portVars, sessionVars, rerankVars, formatVars, tradeVars>>

\* ------------------------------------------------------------------ bounds
MaxIngestChunks == 3

\* ------------------------------------------------------------- the store
\* Rows of one document: the Document row, its DocumentChunk rows (by
\* chunk_index) and the chunks whose embedding column is set.
NoRows == [doc |-> FALSE, chunks |-> {}, emb |-> {}]

\* session.commit(): the transaction's writes become durable.
Commit(c, p) ==
    [doc |-> c.doc \/ p.doc, chunks |-> c.chunks \cup p.chunks, emb |-> c.emb \cup p.emb]

\* UPDATE document_chunks SET embedding = ... WHERE id = :chunk_id
\* touches the row only when it exists (committed, or written by this transaction).
ExecuteUpdate(c, p, chunk) ==
    IF chunk \in (c.chunks \cup p.chunks)
    THEN [p EXCEPT !.emb = @ \cup {chunk}]
    ELSE p

\* Objects added and flushed inside a transaction that is rolled back are
\* expunged (attributes kept); objects of a committed transaction are persistent
\* and expired, so the next attribute access re-reads the row.
AfterRollback(o) == IF o = "pending" THEN "transient" ELSE o
AfterCommit(o) == IF o = "pending" THEN "persistent" ELSE o

\* ------------------------------------------------------------------- Init
InitIngest ==
    /\ ipc = "idle"
    /\ n_chunks = 0
    /\ supplied = FALSE
    /\ should_close = FALSE
    /\ sess_open = FALSE
    /\ close_calls = 0
    /\ committed = NoRows
    /\ pending = NoRows
    /\ objState = "none"
    /\ k = 0
    /\ storeResults = <<>>

\* ------------------------------------------------------- ingest_document
\* Entry: session = Session() when none was given.
IngestStart(n, sup) ==
    /\ ipc = "idle"
    /\ ipc' = "addDoc"
    /\ n_chunks' = n
    /\ supplied' = sup
    /\ should_close' = ~sup
    /\ sess_open' = TRUE
    /\ UNCHANGED <<close_calls, committed, pending, objState, k, storeResults>>
    /\ UNCHANGED nonIngestVars

\* doc = Document(...); session.add(doc); session.flush()
AddDocument ==
    /\ ipc = "addDoc"
    /\ \/ /\ pending' = [pending EXCEPT !.doc = TRUE]
          /\ objState' = "pending"
          /\ ipc' = "chunk"
       \/ /\ ipc' = "except"          \* the flush raises
          /\ UNCHANGED <<pending, objState>>
    /\ UNCHANGED <<n_chunks, supplied, should_close, sess_open, close_calls,
                   committed, k, storeResults>>
    /\ UNCHANGED nonIngestVars

\* chunks = chunk_text(content); one DocumentChunk per chunk; session.flush()
CreateChunks ==
    /\ ipc = "chunk"
    /\ \/ /\ pending' = [pending EXCEPT !.chunks = 0 .. (n_chunks - 1)]
          /\ ipc' = "embed"
       \/ /\ ipc' = "except"          \* the flush raises
          /\ UNCHANGED pending
    /\ UNCHANGED <<n_chunks, supplied, should_close, sess_open, close_calls,
                   committed, objState, k, storeResults>>
    /\ UNCHANGED nonIngestVars

\* embeddings = self.embeddings.generate_embeddings_batch(chunk_texts)
GenerateEmbeddings ==
    /\ ipc = "embed"
    /\ \/ ipc' = IF n_chunks = 0 THEN "commit" ELSE "store"
       \/ ipc' = "except"             \* the local encoder raises
    /\ k' = 0
    /\ UNCHANGED <<n_chunks, supplied, should_close, sess_open, close_calls,
                   committed, pending, objState, storeResults>>
    /\ UNCHANGED nonIngestVars

\* store_chunk_embedding(chunk_id, embedding, session) with the caller's session:
\* execute + commit, or rollback and False on any exception.  The result is
\* <<committed', pending', objState', returned flag>>.
StoreOutcomes(c, p, o, chunk) ==
    { <<Commit(c, ExecuteUpdate(c, p, chunk)), NoRows, AfterCommit(o), TRUE>>,
      <<c, NoRows, AfterRollback(o), FALSE>> }

\* One iteration of  for chunk_record, embedding in zip(chunk_records, embeddings).
\* Reading chunk_record.id of a persistent (expired) object re-reads the row,
\* which can raise inside ingest_document.
StoreEmbedding ==
    /\ ipc = "store"
    /\ k < n_chunks
    /\ \/ /\ objState = "persistent"
          /\ ipc' = "except"
          /\ UNCHANGED <<committed, pending, objState, k, storeResults>>
       \/ \E r \in StoreOutcomes(committed, pending, objState, k) :
            /\ committed' = r[1]
            /\ pending' = r[2]
            /\ objState' = r[3]
            /\ storeResults' = Append(storeResults, r[4])
            /\ k' = k + 1
            /\ ipc' = IF k + 1 = n_chunks THEN "commit" ELSE "store"
    /\ UNCHANGED <<n_chunks, supplied, should_close, sess_open, close_calls>>
    /\ UNCHANGED nonIngestVars

\* session.commit() of ingest_document; it reaches the database only when the
\* session has a transaction with writes.
FinalCommit ==
    /\ ipc = "commit"
    /\ \/ /\ committed' = Commit(committed, pending)
          /\ pending' = NoRows
          /\ objState' = AfterCommit(objState)
          /\ ipc' = "return"
       \/ /\ pending # NoRows
          /\ ipc' = "except"
          /\ UNCHANGED <<committed, pending, objState>>
    /\ UNCHANGED <<n_chunks, supplied, should_close, sess_open, close_calls,
                   k, storeResults>>
    /\ UNCHANGED nonIngestVars

\* finally: if should_close: session.close()
Finally ==
    /\ close_calls' = IF should_close THEN close_calls + 1 ELSE close_calls
    /\ sess_open' = IF should_close THEN FALSE ELSE sess_open

\* return doc.id (inside the try block; doc is expired after a commit)
ReturnId ==
    /\ ipc = "return"
    /\ \/ /\ ipc' = "returned"
          /\ Finally
          /\ UNCHANGED <<pending, objState>>
       \/ /\ objState = "persistent"
          /\ ipc' = "except"
          /\ UNCHANGED <<pending, objState, close_calls, sess_open>>
    /\ UNCHANGED <<n_chunks, supplied, should_close, committed, k, storeResults>>
    /\ UNCHANGED nonIngestVars

\* except Exception: session.rollback(); raise  (then finally)
IngestExcept ==
    /\ ipc = "except"
    /\ pending' = NoRows
    /\ objState' = AfterRollback(objState)
    /\ ipc' = "raised"
    /\ Finally
    /\ UNCHANGED <<n_chunks, supplied, should_close, committed, k, storeResults>>
    /\ UNCHANGED nonIngestVars

NextIngest ==
    \/ \E n \in 0 .. MaxIngestChunks, sup \in BOOLEAN : IngestStart(n, sup)
    \/ AddDocument
    \/ CreateChunks
    \/ GenerateEmbeddings
    \/ StoreEmbedding
    \/ FinalCommit
    \/ ReturnId
    \/ IngestExcept

\* ----------------------------------------------------------------------
\* GoogleAIRateLimiter and GoogleAIClient.generate (google_ai.py)
\* ----------------------------------------------------------------------
RATE_LIMIT_RPM == 15
RATE_LIMIT_RPD == 1500

Workers == {"w1", "w2"}
MaxMinute == 1          \* minute buckets 0 .. MaxMinute
MaxDay == 1             \* day buckets 0 .. MaxDay
MaxCalls == 3           \* generate calls entered, all workers together
NoKey == [minute |-> 0, day |-> 0]

\* _get_minute_key(): the key names the minute, now.strftime("%Y%m%d%H%M")
MinuteKeyOfDay(t) == t.day
MinuteKey(t) == t.minute

\* _get_day_key(): the key names the day, now.strftime("%Y%m%d")
DayKey(t) == t.day

Keys(t) == [minute |-> MinuteKey(t), day |-> DayKey(t)]

\* minute_count >= self.RATE_LIMIT_RPM
MinuteStrict(c) == c > RATE_LIMIT_RPM
MinuteExceeded(c) == c >= RATE_LIMIT_RPM

\* day_count >= self.RATE_LIMIT_RPD
DayExceeded(c) == c >= RATE_LIMIT_RPD

\* can_make_request() evaluated on given counter values: (can_request, reason)
CanMakeRequest(minute_count, day_count) ==
    IF MinuteExceeded(minute_count) THEN <<FALSE, "minute">>
    ELSE IF DayExceeded(day_count) THEN <<FALSE, "day">>
    ELSE <<TRUE, "none">>

InitLimIdle ==
    /\ now = [minute |-> 0, day |-> 0]
    /\ lpc = [w \in Workers |-> "idle"]
    /\ lkey = [w \in Workers |-> NoKey]
    /\ lcnt = [w \in Workers |-> 0]
    /\ lres = [w \in Workers |-> "none"]
    /\ genCalls = 0

\* The limiter at rest, no generate call budget: the state of the limiter in the
\* specifications of the other components.
InitLimOff ==
    /\ InitLimIdle
    /\ minuteCache = [m \in 0 .. MaxMinute |-> 0]
    /\ dayCache = [d \in 0 .. MaxDay |-> 0]
    /\ netMinute = [m \in 0 .. MaxMinute |-> 0]
    /\ netDay = [d \in 0 .. MaxDay |-> 0]
    /\ recMinute = [m \in 0 .. MaxMinute |-> 0]
    /\ recDay = [d \in 0 .. MaxDay |-> 0]

\* Counters left by earlier requests of the current minute and day, each of which
\* ran alone and succeeded: mc of them in this minute, dc of them in this day.
InitLimiter ==
    /\ InitLimIdle
    /\ \E mc \in {0, RATE_LIMIT_RPM - 1} :
       \E dc \in {mc, RATE_LIMIT_RPD - 1} :
          /\ minuteCache = [m \in 0 .. MaxMinute |-> IF m = 0 THEN mc ELSE 0]
          /\ dayCache = [d \in 0 .. MaxDay |-> IF d = 0 THEN dc ELSE 0]
          /\ netMinute = [m \in 0 .. MaxMinute |-> IF m = 0 THEN mc ELSE 0]
          /\ netDay = [d \in 0 .. MaxDay |-> IF d = 0 THEN dc ELSE 0]
          /\ recMinute = [m \in 0 .. MaxMinute |-> IF m = 0 THEN mc ELSE 0]
          /\ recDay = [d \in 0 .. MaxDay |-> IF d = 0 THEN dc ELSE 0]

\* generate(): can_make_request() computes both keys from the clock and reads the
\* minute counter; RateLimitError(reason) when the minute cap is reached.
CheckMinute(w) ==
    /\ lpc[w] = "idle"
    /\ genCalls' = genCalls + 1
    /\ IF MinuteExceeded(minuteCache[MinuteKey(now)])
       THEN /\ lres' = [lres EXCEPT ![w] = "rate_minute"]
            /\ UNCHANGED <<lpc, lkey>>
       ELSE /\ lres' = [lres EXCEPT ![w] = "none"]
            /\ lkey' = [lkey EXCEPT ![w] = Keys(now)]
            /\ lpc' = [lpc EXCEPT ![w] = "checkDay"]
    /\ UNCHANGED <<now, minuteCache, dayCache, lcnt, netMinute, netDay, recMinute, recDay>>
    /\ UNCHANGED nonLimVars

\* can_make_request() reads the day counter; RateLimitError(reason) when the day
\* cap is reached, otherwise generate goes on to the network call.
CheckDay(w) ==
    /\ lpc[w] = "checkDay"
    /\ IF DayExceeded(dayCache[lkey[w].day])
       THEN /\ lres' = [lres EXCEPT ![w] = "rate_day"]
            /\ lpc' = [lpc EXCEPT ![w] = "idle"]
       ELSE /\ lpc' = [lpc EXCEPT ![w] = "call"]
            /\ UNCHANGED lres
    /\ lkey' = [lkey EXCEPT ![w] = NoKey]
    /\ UNCHANGED <<now, minuteCache, dayCache, lcnt, genCalls,
                   netMinute, netDay, recMinute, recDay>>
    /\ UNCHANGED nonLimVars

\* self._client.generate_content(...): the network call, which returns or raises
\* ("Don't record failed requests": the except clause re-raises, nothing is recorded).
ApiCall(w) ==
    /\ lpc[w] = "call"
    /\ netMinute' = [netMinute EXCEPT ![now.minute] = @ + 1]
    /\ netDay' = [netDay EXCEPT ![now.day] = @ + 1]
    /\ \/ /\ lpc' = [lpc EXCEPT ![w] = "record"]
          /\ UNCHANGED lres
       \/ /\ lpc' = [lpc EXCEPT ![w] = "idle"]
          /\ lres' = [lres EXCEPT ![w] = "api_error"]
    /\ UNCHANGED <<now, minuteCache, dayCache, lkey, lcnt, genCalls, recMinute, recDay>>
    /\ UNCHANGED nonLimVars

\* record_request(): both keys from the clock; minute_count = cache.get(minute_key, 0)
RecordGetMinute(w) ==
    /\ lpc[w] = "record"
    /\ lkey' = [lkey EXCEPT ![w] = Keys(now)]
    /\ lcnt' = [lcnt EXCEPT ![w] = minuteCache[MinuteKey(now)]]
    /\ recMinute' = [recMinute EXCEPT ![now.minute] = @ + 1]
    /\ recDay' = [recDay EXCEPT ![now.day] = @ + 1]
    /\ lpc' = [lpc EXCEPT ![w] = "setMinute"]
    /\ UNCHANGED <<now, minuteCache, dayCache, lres, genCalls, netMinute, netDay>>
    /\ UNCHANGED nonLimVars

\* cache.set(minute_key, minute_count + 1, timeout=120)
RecordSetMinute(w) ==
    /\ lpc[w] = "setMinute"
    /\ minuteCache' = [minuteCache EXCEPT ![lkey[w].minute] = lcnt[w] + 1]
    /\ lpc' = [lpc EXCEPT ![w] = "getDay"]
    /\ UNCHANGED <<now, dayCache, lkey, lcnt, lres, genCalls,
                   netMinute, netDay, recMinute, recDay>>
    /\ UNCHANGED nonLimVars

\* day_count = cache.get(day_key, 0)
RecordGetDay(w) ==
    /\ lpc[w] = "getDay"
    /\ lcnt' = [lcnt EXCEPT ![w] = dayCache[lkey[w].day]]
    /\ lpc' = [lpc EXCEPT ![w] = "setDay"]
    /\ UNCHANGED <<now, minuteCache, dayCache, lkey, lres, genCalls,
                   netMinute, netDay, recMinute, recDay>>
    /\ UNCHANGED nonLimVars

\* cache.set(day_key, day_count + 1, timeout=90000); generate returns response.text
RecordSetDay(w) ==
    /\ lpc[w] = "setDay"
    /\ dayCache' = [dayCache EXCEPT ![lkey[w].day] = lcnt[w] + 1]
    /\ lpc' = [lpc EXCEPT ![w] = "idle"]
    /\ lres' = [lres EXCEPT ![w] = "ok"]
    /\ lkey' = [lkey EXCEPT ![w] = NoKey]
    /\ lcnt' = [lcnt EXCEPT ![w] = 0]
    /\ UNCHANGED <<now, minuteCache, genCalls,
                   netMinute, netDay, recMinute, recDay>>
    /\ UNCHANGED nonLimVars

\* datetime.now() moves to the next minute bucket of the same day.
NextMinute ==
    /\ now.minute < MaxMinute
    /\ now' = [now EXCEPT !.minute = @ + 1]
    /\ UNCHANGED <<minuteCache, dayCache, lpc, lkey, lcnt, lres, genCalls,
                   netMinute, netDay, recMinute, recDay>>
    /\ UNCHANGED nonLimVars

\* datetime.now() passes midnight: next minute bucket, next day bucket.
Midnight ==
    /\ now.minute < MaxMinute
    /\ now.day < MaxDay
    /\ now' = [minute |-> now.minute + 1, day |-> now.day + 1]
    /\ UNCHANGED <<minuteCache, dayCache, lpc, lkey, lcnt, lres, genCalls,
                   netMinute, netDay, recMinute, recDay>>
    /\ UNCHANGED nonLimVars

\* The cache timeouts (120 s, 90000 s) only drop entries of buckets that lie in
\* the past; an entry of the current minute or day never expires before its
\* bucket ends, so expiry is not a step of this model.
AllIdle == \A w \in Workers : lpc[w] = "idle"

\* Concurrent workers (task-queue processes sharing the cache).
NextLimiter ==
    \/ \E w \in Workers : genCalls < MaxCalls /\ CheckMinute(w)
    \/ \E w \in Workers : CheckDay(w)
    \/ \E w \in Workers : ApiCall(w)
    \/ \E w \in Workers : RecordGetMinute(w)
    \/ \E w \in Workers : RecordSetMinute(w)
    \/ \E w \in Workers : RecordGetDay(w)
    \/ \E w \in Workers : RecordSetDay(w)
    \/ NextMinute
    \/ Midnight

\* One generate call at a time.
NextLimiterSeq ==
    \/ \E w \in Workers :
          /\ AllIdle
          /\ genCalls < MaxCalls
          /\ CheckMinute(w)
    \/ \E w \in Workers : CheckDay(w)
    \/ \E w \in Workers : ApiCall(w)
    \/ \E w \in Workers : RecordGetMinute(w)
    \/ \E w \in Workers : RecordSetMinute(w)
    \/ \E w \in Workers : RecordGetDay(w)
    \/ \E w \in Workers : RecordSetDay(w)
    \/ NextMinute
    \/ Midnight

\* ----------------------------------------------------------------------
\* DocumentProcessor.chunk_text (document_processor.py)
\* ----------------------------------------------------------------------
MaxChunkSize == 3       \* chunk_size in 1 .. MaxChunkSize, chunk_overlap in 0 .. MaxChunkSize
MaxTextLen == 3         \* characters of the input text
MaxLoopSteps == MaxTextLen + 1   \* iterations recorded of a loop that does not end

\* Characters: two word characters, a whitespace character, and a character
\* outside the class kept by _clean_text.
Letters == {"a", "b"}
Alphabet == Letters \cup {" ", "#"}

RECURSIVE SeqsUpTo(_, _)
SeqsUpTo(S, n) ==
    IF n = 0 THEN {<<>>}
    ELSE LET shorter == SeqsUpTo(S, n - 1)
         IN  shorter \cup {Append(q, c) : q \in {r \in shorter : Len(r) = n - 1}, c \in S}

Texts == SeqsUpTo(Alphabet, MaxTextLen)

Min(a, b) == IF a < b THEN a ELSE b
Max(a, b) == IF a > b THEN a ELSE b

\* seq[a:b] of Python: negative indices count from the end, out-of-range ones clip.
PyIndex(i, n) == IF i < 0 THEN Max(i + n, 0) ELSE Min(i, n)
PySlice(q, a, b) == SubSeq(q, PyIndex(a, Len(q)) + 1, PyIndex(b, Len(q)))

\* str.strip()
RECURSIVE LStrip(_)
LStrip(t) == IF t # <<>> /\ Head(t) = " " THEN LStrip(Tail(t)) ELSE t
RECURSIVE RStrip(_)
RStrip(t) ==
    IF t # <<>> /\ t[Len(t)] = " " THEN RStrip(SubSeq(t, 1, Len(t) - 1)) ELSE t
Strip(t) == LStrip(RStrip(t))

\* not text or not text.strip()
IsBlank(t) == t = <<>> \/ Strip(t) = <<>>

\* re.sub(r"\s+", " ", text): a run of whitespace becomes one space
RECURSIVE CollapseWs(_)
CollapseWs(t) ==
    IF Len(t) < 2 THEN t
    ELSE IF t[1] = " " /\ t[2] = " " THEN CollapseWs(Tail(t))
    ELSE <<t[1]>> \o CollapseWs(Tail(t))

\* re.sub(r"[^\w\s\.\,...]", "", text): characters outside the class are removed
RemoveSpecial(t) == SelectSeq(t, LAMBDA c : c # "#")

\* _clean_text
CleanText(t) == Strip(RemoveSpecial(CollapseWs(t)))

\* self.encoding.encode: a byte-pair tokenizer; a space followed by a word
\* character is one token, any other character is a token of its own.
RECURSIVE Encode(_)
Encode(t) ==
    IF t = <<>> THEN <<>>
    ELSE IF Len(t) >= 2 /\ t[1] = " " /\ t[2] \in Letters
         THEN <<SubSeq(t, 1, 2)>> \o Encode(SubSeq(t, 3, Len(t)))
         ELSE <<SubSeq(t, 1, 1)>> \o Encode(Tail(t))

\* self.encoding.decode: the characters of the tokens, concatenated
RECURSIVE Decode(_)
Decode(toks) == IF toks = <<>> THEN <<>> ELSE Head(toks) \o Decode(Tail(toks))

\* start_idx += self.chunk_size - self.chunk_overlap
WindowStepNoOverlap(size, overlap) == size
WindowStep(size, overlap) == size - overlap

\* The locals before the first iteration: chunks = [], start_idx = 0, chunk_index = 0.
\* windows and starts keep chunk_tokens and start_idx of every iteration; done
\* says the loop has been left.
LoopInit(toks) ==
    [start_idx |-> 0, chunk_index |-> 0, chunks |-> <<>>, windows |-> <<>>,
     starts |-> <<>>, done |-> ~(0 < Len(toks)), spin |-> 0]

\* if end_idx >= len(tokens): break    (otherwise the while condition decides)
LoopLeftNoBreak(end_idx, next_start, n) == ~(next_start < n)
LoopLeft(end_idx, next_start, n) == end_idx >= n \/ ~(next_start < n)

\* One iteration of  while start_idx < len(tokens).
LoopBody(st, toks, size, overlap) ==
    LET end_idx == Min(st.start_idx + size, Len(toks))
        chunk_tokens == PySlice(toks, st.start_idx, end_idx)
        chunk == [content |-> Strip(Decode(chunk_tokens)),
                  chunk_index |-> st.chunk_index,
                  token_count |-> Len(chunk_tokens)]
        next_start == st.start_idx + WindowStep(size, overlap)
    IN  [start_idx |-> next_start,
         chunk_index |-> st.chunk_index + 1,
         chunks |-> Append(st.chunks, chunk),
         windows |-> Append(st.windows, chunk_tokens),
         starts |-> Append(st.starts, st.start_idx),
         done |-> LoopLeft(end_idx, next_start, Len(toks)),
         spin |-> st.spin]

\* The tokens chunk_text works on: none for a blank text (return []), otherwise
\* the encoding of the cleaned text.
TokensOf(t) == IF IsBlank(t) THEN <<>> ELSE Encode(CleanText(t))

\* chunk_text as a function, for the calls that return within `fuel` iterations.
RECURSIVE RunLoop(_, _, _, _, _)
RunLoop(st, toks, size, overlap, fuel) ==
    IF st.done \/ fuel = 0 THEN st
    ELSE RunLoop(LoopBody(st, toks, size, overlap), toks, size, overlap, fuel - 1)

ChunkText(t, size, overlap) ==
    RunLoop(LoopInit(TokensOf(t)), TokensOf(t), size, overlap, MaxLoopSteps)

InitChunkOff ==
    /\ cpc = "off"
    /\ chunk_size = 1
    /\ chunk_overlap = 0
    /\ text = <<>>
    /\ tokens = <<>>
    /\ loop = LoopInit(<<>>)

\* The constructor arguments and the text are the inputs.
InitChunk ==
    /\ cpc = "new"
    /\ chunk_size \in 1 .. MaxChunkSize
    /\ chunk_overlap \in 0 .. MaxChunkSize
    /\ text \in Texts
    /\ tokens = <<>>
    /\ loop = LoopInit(<<>>)

\* DocumentProcessor.__init__: the sizes are stored as given.
NewDocumentProcessor ==
    /\ cpc = "new"
    /\ cpc' = "ready"
    /\ UNCHANGED <<chunk_size, chunk_overlap, text, tokens, loop>>
    /\ UNCHANGED nonChunkVars

\* chunk_text up to the loop: blank check, _clean_text, encode, the locals.
ChunkTextEnter ==
    /\ cpc = "ready"
    /\ tokens' = TokensOf(text)
    /\ loop' = LoopInit(tokens')
    /\ cpc' = IF loop'.done THEN "done" ELSE "loop"
    /\ UNCHANGED <<chunk_size, chunk_overlap, text>>
    /\ UNCHANGED nonChunkVars

\* One iteration of the while loop.  A loop that has not ended after
\* MaxLoopSteps iterations has a step of zero or less (a positive step passes
\* the last token within Len(tokens) iterations) and keeps iterating: the
\* chunks past the recorded ones are not kept, only the parity of their
\* number (spin).
ChunkStep ==
    /\ cpc = "loop"
    /\ loop' = IF Len(loop.chunks) < MaxLoopSteps
                THEN LoopBody(loop, tokens, chunk_size, chunk_overlap)
                ELSE [loop EXCEPT !.spin = 1 - @]
    /\ cpc' = IF loop'.done THEN "done" ELSE "loop"
    /\ UNCHANGED <<chunk_size, chunk_overlap, text, tokens>>
    /\ UNCHANGED nonChunkVars

NextChunk ==
    \/ NewDocumentProcessor
    \/ ChunkTextEnter
    \/ ChunkStep

\* ----------------------------------------------------------------------
\* EmbeddingsService.generate_embeddings_batch (embeddings.py, local_llm.py)
\* ----------------------------------------------------------------------
MaxTexts == 3           \* len(texts)
MaxBatch == 2           \* batch_size in 1 .. MaxBatch
MaxDim == 2             \* vector lengths in 1 .. MaxDim

\* The texts of a batch: empty, whitespace only, and two different contents.
EmbedTexts == {<<>>, <<" ">>, <<"a">>, <<"b">>}

\* The vector a model with vectors of length dim gives for a text: its
\* components tell the texts apart (the blank " " has a vector of its own).
TextCode(t) == IF t = <<"a">> THEN 1 ELSE IF t = <<"b">> THEN 2 ELSE 3
BackendEmbed(t, dim) == [j \in 1 .. dim |-> TextCode(t)]

\* [0.0] * self.dimension
ZeroVector(dim) == [j \in 1 .. dim |-> 0]

\* [text if text and text.strip() else " " for text in texts]
FillBlank(t) == IF IsBlank(t) THEN <<" ">> ELSE t
FillBlanks(ts) == [j \in 1 .. Len(ts) |-> FillBlank(ts[j])]

\* [item.embedding for item in response.data] / self.model.encode(texts).tolist():
\* one vector per text of the request, in the order of the request.
BackendBatch(ts, dim) == [j \in 1 .. Len(ts) |-> BackendEmbed(ts[j], dim)]

\* A single zero vector for the whole failed batch (not what the code does).
ZeroBatchOnce(n, dim) == <<ZeroVector(dim)>>

\* [[0.0] * self.dimension] * len(batch)
ZeroBatch(n, dim) == [j \in 1 .. n |-> ZeroVector(dim)]

\* batch = texts[i : i + batch_size]
BatchOf(ts, i, size) == PySlice(ts, i, i + size)

InitEmbedOff ==
    /\ epc = "off"
    /\ use_local = TRUE
    /\ dimension = 1
    /\ model_dim = 1
    /\ texts = <<>>
    /\ batch_size = 1
    /\ batch_i = 0
    /\ embeddings = <<>>
    /\ failed = {}
    /\ sent = {}
    /\ embedding = <<>>

\* Inputs: the constructor arguments (use_local, dimension, and the model, of
\* which only the length of its vectors matters) and the arguments of the call.
InitEmbed ==
    /\ epc = "new"
    /\ use_local \in BOOLEAN
    /\ dimension \in 1 .. MaxDim
    /\ model_dim \in 1 .. MaxDim
    /\ texts \in UNION {[1 .. n -> EmbedTexts] : n \in 0 .. MaxTexts}
    /\ batch_size \in 1 .. MaxBatch
    /\ batch_i = 0
    /\ embeddings = <<>>
    /\ failed = {}
    /\ sent = {}
    /\ embedding = <<>>

\* EmbeddingsService.__init__: self.dimension = dimension; _init_local_model
\* replaces it by self.embeddings.dimension, _init_openai leaves it.
NewEmbeddingsService ==
    /\ epc = "new"
    /\ dimension' = IF use_local THEN model_dim ELSE dimension
    /\ epc' = "ready"
    /\ UNCHANGED <<use_local, model_dim, texts, batch_size, batch_i, embeddings, failed,
                   sent, embedding>>
    /\ UNCHANGED nonEmbVars

\* generate_embeddings_batch, local backend: blanks replaced by " ", one
\* model.encode call over the whole list (which can raise).
GenerateLocalBatch ==
    /\ epc = "ready"
    /\ use_local
    /\ \/ /\ embeddings' = BackendBatch(FillBlanks(texts), model_dim)
          /\ epc' = "done"
       \/ /\ epc' = "raised"
          /\ UNCHANGED embeddings
    /\ sent' = sent \cup {FillBlank(texts[j]) : j \in 1 .. Len(texts)}
    /\ UNCHANGED <<use_local, dimension, model_dim, texts, batch_size, batch_i, failed,
                   embedding>>
    /\ UNCHANGED nonEmbVars

\* _generate_openai_batch: embeddings = []; the range loop starts at i = 0.
OpenAIBatchEnter ==
    /\ epc = "ready"
    /\ ~use_local
    /\ embeddings' = <<>>
    /\ batch_i' = 0
    /\ epc' = IF Len(texts) = 0 THEN "done" ELSE "batch"
    /\ UNCHANGED <<use_local, dimension, model_dim, texts, batch_size, failed, sent,
                   embedding>>
    /\ UNCHANGED nonEmbVars

\* One iteration: the request for the batch returns its vectors, or raises and
\* zero vectors are added for the batch.
OpenAIBatchStep ==
    /\ epc = "batch"
    /\ LET batch == FillBlanks(BatchOf(texts, batch_i, batch_size))
       IN  \/ /\ embeddings' = embeddings \o BackendBatch(batch, model_dim)
              /\ UNCHANGED failed
           \/ /\ embeddings' = embeddings \o ZeroBatch(Len(batch), dimension)
              /\ failed' = failed \cup (batch_i + 1 .. batch_i + Len(batch))
    /\ sent' = sent \cup {FillBlank(texts[j]) :
                              j \in batch_i + 1 .. Min(batch_i + batch_size, Len(texts))}
    /\ batch_i' = batch_i + batch_size
    /\ epc' = IF batch_i' < Len(texts) THEN "batch" ELSE "done"
    /\ UNCHANGED <<use_local, dimension, model_dim, texts, batch_size, embedding>>
    /\ UNCHANGED nonEmbVars

\* generate_embedding(texts[0]): the zero vector for a blank text without a
\* backend call; otherwise LocalEmbeddings.generate_embedding (model.encode,
\* which can raise) or _generate_openai (a failed request gives the zero
\* vector of self.dimension).
GenerateEmbedding ==
    /\ epc = "ready"
    /\ Len(texts) > 0
    /\ LET t == texts[1]
       IN  IF IsBlank(t)
           THEN /\ embedding' = ZeroVector(dimension)
                /\ epc' = "single_done"
                /\ UNCHANGED sent
           ELSE /\ sent' = sent \cup {t}
                /\ \/ /\ embedding' = BackendEmbed(t, model_dim)
                      /\ epc' = "single_done"
                   \/ /\ use_local
                      /\ epc' = "single_raised"
                      /\ UNCHANGED embedding
                   \/ /\ ~use_local
                      /\ embedding' = ZeroVector(dimension)
                      /\ epc' = "single_done"
    /\ UNCHANGED <<use_local, dimension, model_dim, texts, batch_size, batch_i,
                   embeddings, failed>>
    /\ UNCHANGED nonEmbVars

NextEmbed ==
    \/ NewEmbeddingsService
    \/ GenerateEmbedding
    \/ GenerateLocalBatch
    \/ OpenAIBatchEnter
    \/ OpenAIBatchStep

\* ----------------------------------------------------------------------
\* EmbeddingsService.semantic_search and RetrievalService.retrieve_context
\* (embeddings.py, retrieval.py)
\* ----------------------------------------------------------------------
MaxLimit == 2           \* limit / top_k in 0 .. MaxLimit

\* Similarities are in tenths: 0.7 is the default similarity_threshold of
\* semantic_search, 0.6 the one retrieve_context passes.
DefaultThreshold == 7
RetrieveThreshold == 6

\* The chunks the store can hold: two with the same similarity, one exactly at
\* each threshold, one below both, one without embedding (NULL).
Catalogue ==
    { [id |-> 1, symbol |-> "BTC", doc_type |-> "signal",   timeframe |-> "1h", emb |-> TRUE,  sim |-> 9],
      [id |-> 2, symbol |-> "BTC", doc_type |-> "backtest", timeframe |-> "1h", emb |-> TRUE,  sim |-> 6],
      [id |-> 3, symbol |-> "ETH", doc_type |-> "signal",   timeframe |-> "4h", emb |-> TRUE,  sim |-> 9],
      [id |-> 4, symbol |-> "BTC", doc_type |-> "signal",   timeframe |-> "4h", emb |-> TRUE,  sim |-> 5],
      [id |-> 5, symbol |-> "ETH", doc_type |-> "backtest", timeframe |-> "1h", emb |-> FALSE, sim |-> 0],
      [id |-> 6, symbol |-> "BTC", doc_type |-> "signal",   timeframe |-> "1h", emb |-> TRUE,  sim |-> 7] }

\* The keys semantic_search looks at, and one it does not.
SupportedKeys == {"symbol", "doc_type", "timeframe"}
FilterKeys == SupportedKeys \cup {"category"}
FilterValues(key) ==
    CASE key = "symbol" -> {"BTC", "ETH"}
      [] key = "doc_type" -> {"signal", "backtest"}
      [] key = "timeframe" -> {"1h", "4h"}
      [] key = "category" -> {"risk"}
AllFilterValues == UNION {FilterValues(key) : key \in FilterKeys}

\* The filters dictionaries a caller can pass (None and {} behave alike).
FiltersOver(K) == {f \in [K -> AllFilterValues] : \A key \in K : f[key] \in FilterValues(key)}
Filters == UNION {FiltersOver(K) : K \in SUBSET FilterKeys}
NoFilters == [key \in {} |-> "BTC"]

\* where_conditions: "embedding IS NOT NULL" and one equality per supported key
\* present in filters, joined by AND.
WhereClause(row, filters) ==
    /\ row.emb
    /\ ("symbol" \in DOMAIN filters) => row.symbol = filters["symbol"]
    /\ ("doc_type" \in DOMAIN filters) => row.doc_type = filters["doc_type"]
    /\ ("timeframe" \in DOMAIN filters) => row.timeframe = filters["timeframe"]

\* AND (1 - (dc.embedding <=> :query_embedding::vector)) >= :threshold
AboveThresholdOff(sim, threshold) == TRUE
AboveThreshold(sim, threshold) == sim >= threshold

Selected(rs, threshold, filters) ==
    {row \in rs : WhereClause(row, filters) /\ AboveThreshold(row.sim, threshold)}

\* ORDER BY dc.embedding <=> :query_embedding::vector  (ascending distance)
OrderedByDistance(res) ==
    \A i \in 1 .. Len(res) - 1 : res[i].sim >= res[i + 1].sim

\* The result sets the SELECT can return: the selected rows in ascending
\* distance, cut at LIMIT :limit; rows at the same distance come in any order.
SelectRows(rs, limit, threshold, filters) ==
    LET sel == Selected(rs, threshold, filters)
        n == Min(limit, Cardinality(sel))
    IN  {res \in [1 .. n -> sel] :
            /\ \A i, j \in 1 .. n : i # j => res[i] # res[j]
            /\ OrderedByDistance(res)
            /\ \A row \in sel :
                  (\A i \in 1 .. n : res[i] # row)
                      => \A i \in 1 .. n : res[i].sim >= row.sim}

\* The dictionary built for a row (lines 268-283).
ResultOf(row) ==
    [chunk_id |-> row.id, doc_type |-> row.doc_type, symbol |-> row.symbol,
     timeframe |-> row.timeframe, similarity |-> row.sim]
ResultsOf(res) == [i \in 1 .. Len(res) |-> ResultOf(res[i])]

NoCall == [op |-> "none", limit |-> 0, threshold |-> 0, filters |-> NoFilters]

InitSearchOff ==
    /\ spc = "off"
    /\ rows = {}
    /\ s_call = NoCall
    /\ s_results = <<>>
    /\ s_executed = FALSE

\* The content of the store is the input.
InitSearch ==
    /\ spc = "idle"
    /\ rows \in SUBSET Catalogue
    /\ s_call = NoCall
    /\ s_results = <<>>
    /\ s_executed = FALSE

\* The ways semantic_search can end on a store holding rs: the SELECT returns
\* and its rows are converted, or session.execute raises, the exception is
\* caught and [] is returned (except Exception: return []).
SearchOutcomesNoCatch(rs, limit, threshold, filters) ==
    {[executed |-> TRUE, raised |-> FALSE, results |-> ResultsOf(res)] :
        res \in SelectRows(rs, limit, threshold, filters)}
    \cup {[executed |-> FALSE, raised |-> TRUE, results |-> <<>>]}
SearchOutcomes(rs, limit, threshold, filters) ==
    {[executed |-> TRUE, raised |-> FALSE, results |-> ResultsOf(res)] :
        res \in SelectRows(rs, limit, threshold, filters)}
    \cup {[executed |-> FALSE, raised |-> FALSE, results |-> <<>>]}

\* The body of semantic_search, as seen by its caller.
SearchBody(limit, threshold, filters) ==
    \E o \in SearchOutcomes(rows, limit, threshold, filters) :
        /\ s_results' = o.results
        /\ s_executed' = o.executed
        /\ spc' = IF o.raised THEN "raised" ELSE "done"

\* semantic_search(query_embedding, limit, similarity_threshold, filters)
SemanticSearch(limit, threshold, filters) ==
    /\ spc = "idle"
    /\ s_call' = [op |-> "semantic_search", limit |-> limit,
                  threshold |-> threshold, filters |-> filters]
    /\ SearchBody(limit, threshold, filters)
    /\ UNCHANGED rows
    /\ UNCHANGED nonSearchVars

\* retrieve_context(query, top_k, filters): generate_embedding(query), which
\* raises when the local encoder does, then semantic_search with the
\* threshold 0.6.
RetrieveContext(top_k, filters) ==
    /\ spc = "idle"
    /\ s_call' = [op |-> "retrieve_context", limit |-> top_k,
                  threshold |-> RetrieveThreshold, filters |-> filters]
    /\ \/ SearchBody(top_k, RetrieveThreshold, filters)
       \/ /\ spc' = "raised"
          /\ UNCHANGED <<s_results, s_executed>>
    /\ UNCHANGED rows
    /\ UNCHANGED nonSearchVars

NextSearch ==
    \/ \E limit \in 0 .. MaxLimit, threshold \in {RetrieveThreshold, DefaultThreshold},
          filters \in Filters : SemanticSearch(limit, threshold, filters)
    \/ \E top_k \in 0 .. MaxLimit, filters \in Filters : RetrieveContext(top_k, filters)

\* ----------------------------------------------------------------------
\* FKSIntelligence.query (intelligence.py) with RetrievalService.rerank_results
\* ----------------------------------------------------------------------
\* The symbol arguments ("" stands for None) and the doc_types lists (<<>> for None).
QuerySymbols == {"", "BTC", "ETH"}
DocTypeLists == {<<>>, <<"signal">>, <<"signal", "backtest">>, <<"signal", "signal">>}

\* filters[key] = value
SetKey(f, key, value) ==
    [x \in DOMAIN f \cup {key} |-> IF x = key THEN value ELSE f[x]]

\* The slice left out: every merged result is kept.
TakeAll(res, n) == res

\* results[:n]
Take(res, n) == SubSeq(res, 1, Min(n, Len(res)))

\* max_sim = max(r.get("similarity", 0) for r in results)
MaxSimilarity(res) ==
    CHOOSE m \in {res[i].similarity : i \in 1 .. Len(res)} :
        \A i \in 1 .. Len(res) : res[i].similarity <= m

\* The normalisation left out: 0.6 * similarity + 0.4 * 0.5, in tenths.
CombinedScoreUnnormalised(sim, max_sim) == [num |-> 6 * sim + 2, den |-> 10]

\* combined_score = 0.6 * sim_score + 0.4 * recency_score, with
\* sim_score = similarity / max_sim (0 when max_sim is 0) and recency_score 0.5,
\* as the fraction num / den.
CombinedScore(sim, max_sim) ==
    IF max_sim > 0
    THEN [num |-> 6 * sim + 2 * max_sim, den |-> 10 * max_sim]
    ELSE [num |-> 2, den |-> 10]

\* result["combined_score"] = ... for every result
WithCombinedScore(res) ==
    [i \in 1 .. Len(res) |->
        SetKey(res[i], "combined_score",
               CombinedScore(res[i].similarity, MaxSimilarity(res)))]

\* sorted(results, key=combined_score, reverse=True): descending and stable
\* (the scores of one call have the same denominator).
RECURSIVE SortedByScore(_)
SortedByScore(res) ==
    IF res = <<>> THEN <<>>
    ELSE LET top == CHOOSE i \in 1 .. Len(res) :
                       /\ \A j \in 1 .. Len(res) :
                             res[j].combined_score.num <= res[i].combined_score.num
                       /\ \A j \in 1 .. i - 1 :
                             res[j].combined_score.num < res[i].combined_score.num
             rest == [j \in 1 .. Len(res) - 1 |-> IF j < top THEN res[j] ELSE res[j + 1]]
         IN  <<res[top]>> \o SortedByScore(rest)

\* rerank_results(query, results, method="hybrid")
RerankHybrid(res) ==
    IF res = <<>> THEN res ELSE SortedByScore(WithCombinedScore(res))

\* The ways _generate_response can end: the backend's text; the backend raises
\* and the except clause of _generate_local / _generate_openai turns it into
\* an "Error generating response: ..." answer; on the remote backend,
\* response.choices[0].message.content can also be None.
GenerationOutcomesNoCatch(local) ==
    {[backend_raised |-> FALSE, escaped |-> FALSE, answer |-> "text"],
     [backend_raised |-> TRUE, escaped |-> TRUE, answer |-> "none"]}
GenerationOutcomes(local) ==
    {[backend_raised |-> FALSE, escaped |-> FALSE, answer |-> "text"],
     [backend_raised |-> TRUE, escaped |-> FALSE, answer |-> "gen_error"]}
    \cup (IF local THEN {}
          ELSE {[backend_raised |-> FALSE, escaped |-> FALSE, answer |-> "none"]})

NoArgs == [symbol |-> "", doc_types |-> <<>>, top_k |-> 0, use_local |-> TRUE]
NoResponse ==
    [kind |-> "none", answer |-> "none", sources |-> <<>>, context_used |-> 0,
     response_time_ms |-> 0]

InitQueryIdle ==
    /\ q_args = NoArgs
    /\ q_filters = NoFilters
    /\ q_i = 0
    /\ all_results = <<>>
    /\ search_log = <<>>
    /\ ranked_results = <<>>
    /\ answer = "none"
    /\ gen_raised = FALSE
    /\ audit = <<>>
    /\ q_response = NoResponse

InitQueryOff ==
    /\ qpc = "off"
    /\ InitQueryIdle

\* query is called on a store with any content.
InitQuery ==
    /\ qpc = "idle"
    /\ InitQueryIdle
    /\ spc = "off"
    /\ rows \in SUBSET Catalogue
    /\ s_call = NoCall
    /\ s_results = <<>>
    /\ s_executed = FALSE

\* query(question, symbol, doc_types, top_k, session): filters = {} and
\* filters["symbol"] = symbol when a symbol is given.
QueryStart(symbol, doc_types, top_k, local) ==
    /\ qpc = "idle"
    /\ q_args' = [symbol |-> symbol, doc_types |-> doc_types, top_k |-> top_k,
                  use_local |-> local]
    /\ q_filters' = IF symbol # "" THEN SetKey(NoFilters, "symbol", symbol) ELSE NoFilters
    /\ q_i' = 1
    /\ all_results' = <<>>
    /\ qpc' = "retrieve"
    /\ UNCHANGED <<search_log, ranked_results, answer, gen_raised, audit, q_response>>
    /\ UNCHANGED nonQueryVars

\* One retrieve_context call: for the next doc_type (filters["doc_type"] =
\* doc_type) or, without doc_types, the only one.  generate_embedding can raise
\* on the local backend; semantic_search ends in one of its outcomes.
QueryRetrieve ==
    /\ qpc = "retrieve"
    /\ LET dts == q_args.doc_types
           filters == IF dts # <<>> THEN SetKey(q_filters, "doc_type", dts[q_i])
                      ELSE q_filters
       IN  /\ q_filters' = filters
           /\ \/ /\ q_args.use_local
                 /\ qpc' = "except"
                 /\ UNCHANGED <<q_i, all_results, search_log>>
              \/ \E o \in SearchOutcomes(rows, q_args.top_k, RetrieveThreshold, filters) :
                    /\ search_log' = Append(search_log,
                            [executed |-> o.executed, raised |-> o.raised,
                             n |-> Len(o.results)])
                    /\ IF o.raised
                       THEN /\ qpc' = "except"
                            /\ UNCHANGED <<q_i, all_results>>
                       ELSE /\ all_results' = all_results \o o.results
                            /\ q_i' = q_i + 1
                            /\ qpc' = IF dts = <<>> \/ q_i = Len(dts)
                                      THEN "rank" ELSE "retrieve"
    /\ UNCHANGED <<q_args, ranked_results, answer, gen_raised, audit, q_response>>
    /\ UNCHANGED nonQueryVars

\* ranked_results = rerank_results(question, all_results, "hybrid")[:top_k]
QueryRank ==
    /\ qpc = "rank"
    /\ ranked_results' = Take(RerankHybrid(all_results), q_args.top_k)
    /\ qpc' = "generate"
    /\ UNCHANGED <<q_args, q_filters, q_i, all_results, search_log, answer, gen_raised,
                   audit, q_response>>
    /\ UNCHANGED nonQueryVars

\* response = self._generate_response(question, context)
QueryGenerate ==
    /\ qpc = "generate"
    /\ \E o \in GenerationOutcomes(q_args.use_local) :
          /\ answer' = o.answer
          /\ gen_raised' = o.backend_raised
          /\ qpc' = IF o.escaped THEN "except" ELSE "log"
    /\ UNCHANGED <<q_args, q_filters, q_i, all_results, search_log, ranked_results,
                   audit, q_response>>
    /\ UNCHANGED nonQueryVars

\* The QueryHistory row of _log_query.
LogEntry ==
    [response |-> answer,
     chunks |-> [i \in 1 .. Len(ranked_results) |->
                    [chunk_id |-> ranked_results[i].chunk_id,
                     similarity |-> ranked_results[i].similarity,
                     doc_type |-> ranked_results[i].doc_type]],
     model_used |-> "openai_model"]

\* _log_query (add and commit, any exception swallowed), then the return of
\* the response dictionary.
QueryLogAndReturn ==
    /\ qpc = "log"
    /\ \/ audit' = Append(audit, LogEntry)
       \/ UNCHANGED audit
    /\ q_response' = [kind |-> "ok", answer |-> answer, sources |-> ranked_results,
                      context_used |-> Len(ranked_results), response_time_ms |-> 1]
    /\ qpc' = "returned"
    /\ UNCHANGED <<q_args, q_filters, q_i, all_results, search_log, ranked_results,
                   answer, gen_raised>>
    /\ UNCHANGED nonQueryVars

\* except Exception: the error response is returned.
QueryExcept ==
    /\ qpc = "except"
    /\ q_response' = [kind |-> "error", answer |-> "query_error", sources |-> <<>>,
                      context_used |-> 0, response_time_ms |-> 0]
    /\ qpc' = "returned"
    /\ UNCHANGED <<q_args, q_filters, q_i, all_results, search_log, ranked_results,
                   answer, gen_raised, audit>>
    /\ UNCHANGED nonQueryVars

NextQuery ==
    \/ \E symbol \in QuerySymbols, doc_types \in DocTypeLists, top_k \in 0 .. MaxLimit,
          local \in BOOLEAN : QueryStart(symbol, doc_types, top_k, local)
    \/ QueryRetrieve
    \/ QueryRank
    \/ QueryGenerate
    \/ QueryLogAndReturn
    \/ QueryExcept

\* ----------------------------------------------------------------------
\* IntelligenceOrchestrator._parse_recommendation / _extract_confidence
\* (orchestrator.py)
\* ----------------------------------------------------------------------
MaxFragments == 2       \* an answer text is made of at most MaxFragments fragments
MaxCashCents == 50      \* amounts of money, in cents, in 1 .. MaxCashCents

\* Texts are sequences of characters.  The pieces answers are made of:
Vocabulary ==
    { <<"b", "u", "y">>,
      <<"d", "o", "n", "'", "t", " ", "b", "u", "y">>,
      <<"S", "e", "l", "l">>,
      <<"r", "i", "s", "k", "y">>,
      <<"l", "o", "w", " ", "r", "i", "s", "k">>,
      <<"1", "5", "0", "%", " ", "c", "o", "n", "f", "i", "d", "e", "n", "t">>,
      <<"c", "o", "n", "f", "i", "d", "e", "n", "c", "e", ":", " ", "0", ".", "9">>,
      <<"m", "a", "y", "b", "e">>,
      <<"s", "t", "r", "o", "n", "g">>,
      <<" ">> }

RECURSIVE Concat(_)
Concat(parts) == IF parts = <<>> THEN <<>> ELSE Head(parts) \o Concat(Tail(parts))

AnswerTexts ==
    {Concat(parts) : parts \in UNION {[1 .. n -> Vocabulary] : n \in 0 .. MaxFragments}}

\* f"Error generating response: {str(e)}" and f"Error processing query: {str(e)}"
ErrorGenerating == <<"E", "r", "r", "o", "r", " ", "g", "e", "n", "e", "r", "a", "t", "i", "n", "g", " ", "r", "e", "s", "p", "o", "n", "s", "e", ":", " ", "x">>
ErrorProcessing == <<"E", "r", "r", "o", "r", " ", "p", "r", "o", "c", "e", "s", "s", "i", "n", "g", " ", "q", "u", "e", "r", "y", ":", " ", "x">>

\* The answers query can return: a text of the backend, one of the two error
\* texts, or None (message.content of the remote backend).
TextAnswer(t) == [is_none |-> FALSE, text |-> t]
NoneAnswer == [is_none |-> TRUE, text |-> <<>>]
AnswersOfKind(kind) ==
    CASE kind = "text" -> {TextAnswer(t) : t \in AnswerTexts}
      [] kind = "gen_error" -> {TextAnswer(ErrorGenerating)}
      [] kind = "query_error" -> {TextAnswer(ErrorProcessing)}
      [] kind = "none" -> {NoneAnswer}
QueryAnswers ==
    UNION {AnswersOfKind(kind) : kind \in {"text", "gen_error", "query_error", "none"}}

\* str.lower()
LowerChar(c) ==
    CASE c = "S" -> "s"
      [] c = "E" -> "e"
      [] OTHER -> c
Lower(t) == [i \in 1 .. Len(t) |-> LowerChar(t[i])]

\* pattern in text
StartsAt(t, pat, i) ==
    /\ i + Len(pat) - 1 <= Len(t)
    /\ \A j \in 1 .. Len(pat) : t[i + j - 1] = pat[j]
Contains(t, pat) == \E i \in 1 .. Len(t) : StartsAt(t, pat, i)
ContainsAny(t, pats) == \E pat \in pats : Contains(t, pat)

\* Detect action (lines 258-263)
ActionSellFirst(lower) ==
    IF Contains(lower, <<"s", "e", "l", "l">>) THEN "SELL"
    ELSE IF Contains(lower, <<"b", "u", "y">>) /\ ~Contains(lower, <<"d", "o", "n", "'", "t", " ", "b", "u", "y">>) THEN "BUY"
    ELSE "HOLD"
DetectAction(lower) ==
    IF Contains(lower, <<"b", "u", "y">>) /\ ~Contains(lower, <<"d", "o", "n", "'", "t", " ", "b", "u", "y">>) THEN "BUY"
    ELSE IF Contains(lower, <<"s", "e", "l", "l">>) THEN "SELL"
    ELSE "HOLD"

\* Risk level keywords (lines 269-274)
HighRiskWords == {<<"h", "i", "g", "h", " ", "r", "i", "s", "k">>, <<"r", "i", "s", "k", "y">>, <<"a", "g", "g", "r", "e", "s", "s", "i", "v", "e">>}
LowRiskWords == {<<"l", "o", "w", " ", "r", "i", "s", "k">>, <<"s", "a", "f", "e">>, <<"c", "o", "n", "s", "e", "r", "v", "a", "t", "i", "v", "e">>}
DetectRisk(lower) ==
    IF ContainsAny(lower, HighRiskWords) THEN "high"
    ELSE IF ContainsAny(lower, LowRiskWords) THEN "low"
    ELSE "medium"

\* risk_percent = 0.02 if risk == 'low' else 0.03 if risk == 'medium' else 0.05,
\* in percent.
RiskPercentFlat(risk) == 2
RiskPercent(risk) == IF risk = "low" THEN 2 ELSE IF risk = "medium" THEN 3 ELSE 5

\* round(available_cash * risk_percent, 2) for an amount of cash cents: the
\* product is cash * percent hundredths of a cent; round gives the nearest
\* cent, and for a product half way between two cents the one the binary
\* value of the float product is nearer to, which is either of them.
RoundedCents(hundredths) ==
    LET below == hundredths \div 100
        rest == hundredths % 100
    IN  IF rest < 50 THEN {below}
        ELSE IF rest > 50 THEN {below + 1}
        ELSE {below, below + 1}

\* Digits and int(...) of a run of digits
Digits == {"0", "1", "2", "3", "4", "5", "6", "7", "8", "9"}
DigitValue(c) ==
    CASE c = "0" -> 0 [] c = "1" -> 1 [] c = "2" -> 2 [] c = "3" -> 3 [] c = "4" -> 4
      [] c = "5" -> 5 [] c = "6" -> 6 [] c = "7" -> 7 [] c = "8" -> 8 [] c = "9" -> 9
RECURSIVE IntOf(_)
IntOf(ds) == IF ds = <<>> THEN 0 ELSE 10 * IntOf(SubSeq(ds, 1, Len(ds) - 1)) + DigitValue(ds[Len(ds)])
RECURSIVE Pow10(_)
Pow10(n) == IF n = 0 THEN 1 ELSE 10 * Pow10(n - 1)

\* The end of the longest run of characters of cs that starts at i (i - 1 when
\* t[i] is not in cs).
RECURSIVE RunEnd(_, _, _)
RunEnd(t, i, cs) == IF i <= Len(t) /\ t[i] \in cs THEN RunEnd(t, i + 1, cs) ELSE i - 1

Whitespace == {" "}

\* re.search(r'(\d+)%\s*confiden', text.lower()): the start positions at
\* which the pattern matches, and the number of group 1 of the leftmost match.
PercentMatchAt(t, i) ==
    LET e == RunEnd(t, i, Digits)
        w == RunEnd(t, e + 2, Whitespace)
    IN  /\ e >= i
        /\ e + 1 <= Len(t)
        /\ t[e + 1] = "%"
        /\ StartsAt(t, <<"c", "o", "n", "f", "i", "d", "e", "n">>, w + 1)
PercentMatches(t) == {i \in 1 .. Len(t) : PercentMatchAt(t, i)}
PercentGroup(t) ==
    LET i == CHOOSE p \in PercentMatches(t) : \A q \in PercentMatches(t) : p <= q
    IN  SubSeq(t, i, RunEnd(t, i, Digits))

\* re.search(r'confidence[:\s]+(\d+\.?\d*)', text.lower()): the start
\* positions at which it matches and group 1 of the leftmost match as
\* [int |-> digits before the point, frac |-> digits after it].
DecimalMatchAt(t, i) ==
    LET s == i + 10
        e == RunEnd(t, s, Whitespace \cup {":"})
    IN  /\ StartsAt(t, <<"c", "o", "n", "f", "i", "d", "e", "n", "c", "e">>, i)
        /\ e >= s
        /\ e + 1 <= Len(t)
        /\ t[e + 1] \in Digits
DecimalMatches(t) == {i \in 1 .. Len(t) : DecimalMatchAt(t, i)}
DecimalGroup(t) ==
    LET i == CHOOSE p \in DecimalMatches(t) : \A q \in DecimalMatches(t) : p <= q
        s == i + 10
        d1 == RunEnd(t, s, Whitespace \cup {":"}) + 1
        e1 == RunEnd(t, d1, Digits)
        point == e1 + 1 <= Len(t) /\ t[e1 + 1] = "."
        e2 == IF point THEN RunEnd(t, e1 + 2, Digits) ELSE e1
    IN  [int |-> SubSeq(t, d1, e1),
         frac |-> IF point THEN SubSeq(t, e1 + 2, e2) ELSE <<>>]

\* Confidence values are fractions num / den.
Fraction(num, den) == [num |-> num, den |-> den]

\* Keyword fall-backs of _extract_confidence (lines 309-316)
VeryConfidentWords == {<<"h", "i", "g", "h", "l", "y", " ", "c", "o", "n", "f", "i", "d", "e", "n", "t">>, <<"v", "e", "r", "y", " ", "c", "o", "n", "f", "i", "d", "e", "n", "t">>, <<"s", "t", "r", "o", "n", "g">>}
ConfidentWords == {<<"c", "o", "n", "f", "i", "d", "e", "n", "t">>, <<"l", "i", "k", "e", "l", "y">>}
UncertainWords == {<<"u", "n", "c", "e", "r", "t", "a", "i", "n">>, <<"u", "n", "c", "l", "e", "a", "r">>, <<"m", "a", "y", "b", "e">>}

\* _extract_confidence(text)
ExtractConfidence(t) ==
    LET lower == Lower(t)
    IN  IF PercentMatches(lower) # {}
        THEN Fraction(IntOf(PercentGroup(lower)), 100)
        ELSE IF DecimalMatches(lower) # {}
        THEN LET g == DecimalGroup(lower)
             IN  Fraction(IntOf(g.int) * Pow10(Len(g.frac)) + IntOf(g.frac),
                          Pow10(Len(g.frac)))
        ELSE IF ContainsAny(lower, VeryConfidentWords) THEN Fraction(85, 100)
        ELSE IF ContainsAny(lower, ConfidentWords) THEN Fraction(75, 100)
        ELSE IF ContainsAny(lower, UncertainWords) THEN Fraction(50, 100)
        ELSE Fraction(70, 100)

\* The recommendations _parse_recommendation can return for a text answer:
\* position_size_usd is in cents.
ParseRecommendation(t, cash) ==
    LET lower == Lower(t)
        risk == DetectRisk(lower)
    IN  {[action |-> DetectAction(lower),
          position_size_usd |-> size,
          position_size_percent |-> RiskPercent(risk),
          risk_assessment |-> risk,
          reasoning |-> t,
          confidence |-> ExtractConfidence(t)] :
            size \in RoundedCents(cash * RiskPercent(risk))}

NoRecommendation ==
    [action |-> "none", position_size_usd |-> 0, position_size_percent |-> 0,
     risk_assessment |-> "none", reasoning |-> <<>>, confidence |-> Fraction(0, 1)]

InitRecOff ==
    /\ rpc = "off"
    /\ r_answer = NoneAnswer
    /\ account_balance = 0
    /\ available_cash = 0
    /\ cash_used = 0
    /\ recommendation = NoRecommendation

\* The inputs: the answer query returned, the account balance and the
\* available cash (0 stands for None).
InitRec ==
    /\ rpc = "idle"
    /\ r_answer \in QueryAnswers
    /\ account_balance \in 1 .. MaxCashCents
    /\ available_cash \in {0, 1, account_balance, MaxCashCents}
    /\ cash_used = 0
    /\ recommendation = NoRecommendation

\* get_trading_recommendation after query returned: available_cash defaults
\* to account_balance, then _parse_recommendation(answer, ...), which raises
\* at answer.lower() when the answer is None.
GetTradingRecommendation ==
    /\ rpc = "idle"
    /\ LET cash == IF available_cash = 0 THEN account_balance ELSE available_cash
       IN  /\ cash_used' = cash
           /\ IF r_answer.is_none
              THEN /\ rpc' = "raised"
                   /\ UNCHANGED recommendation
              ELSE /\ rpc' = "returned"
                   /\ recommendation' \in ParseRecommendation(r_answer.text, cash)
    /\ UNCHANGED <<r_answer, account_balance, available_cash>>
    /\ UNCHANGED nonRecVars

NextRec == GetTradingRecommendation

\* ----------------------------------------------------------------------
\* IntelligenceOrchestrator.optimize_portfolio (orchestrator.py)
\* ----------------------------------------------------------------------
MaxSymbols == 2

PortfolioSymbols == {"BTC", "ETH"}
SymbolLists == SeqsUpTo(PortfolioSymbols, MaxSymbols)

\* The answers the per-symbol query returns: None, or a text.
PortfolioAnswers ==
    {NoneAnswer, TextAnswer(ErrorProcessing)} \cup {TextAnswer(t) : t \in Vocabulary}

\* get_trading_recommendation(symbol, ...) as one call: it raises at
\* answer.lower() when the answer is None, else returns the parsed record.
TradingRecommendationOutcomes(ans, cash) ==
    IF ans.is_none
    THEN {[raised |-> TRUE, rec |-> NoRecommendation]}
    ELSE {[raised |-> FALSE, rec |-> r] : r \in ParseRecommendation(ans.text, cash)}

\* except Exception as e: recommendations[symbol] = {'error': str(e), 'action': 'HOLD'}
ErrorEntry == [error |-> "exception", action |-> "HOLD"]

\* The except clause left out: the failed call's value is stored as it is.
PortfolioEntryNoCatch(o) == o.rec

\* try: recommendations[symbol] = rec / except: the error entry
PortfolioEntry(o) == IF o.raised THEN ErrorEntry ELSE o.rec

NoEntries == [s \in {} |-> ErrorEntry]
NoPortfolio ==
    [symbols |-> NoEntries, portfolio_advice |-> "none", total_balance |-> 0,
     available_cash |-> 0]

InitPortOff ==
    /\ ppc = "off"
    /\ p_symbols = <<>>
    /\ p_balance = 0
    /\ p_cash = 0
    /\ p_i = 0
    /\ p_calls = <<>>
    /\ recommendations = NoEntries
    /\ p_result = NoPortfolio

InitPort ==
    /\ ppc = "idle"
    /\ p_symbols = <<>>
    /\ p_balance = 0
    /\ p_cash = 0
    /\ p_i = 0
    /\ p_calls = <<>>
    /\ recommendations = NoEntries
    /\ p_result = NoPortfolio

\* optimize_portfolio(symbols, account_balance, available_cash, ...):
\* recommendations = {}
OptimizePortfolio(symbols, balance, cash) ==
    /\ ppc = "idle"
    /\ ppc' = "loop"
    /\ p_symbols' = symbols
    /\ p_balance' = balance
    /\ p_cash' = cash
    /\ p_i' = 1
    /\ p_calls' = <<>>
    /\ recommendations' = NoEntries
    /\ UNCHANGED p_result
    /\ UNCHANGED nonPortVars

\* One iteration of for symbol in symbols.
PortfolioSymbol ==
    /\ ppc = "loop"
    /\ p_i <= Len(p_symbols)
    /\ \E ans \in PortfolioAnswers :
         \E o \in TradingRecommendationOutcomes(ans, p_cash) :
            /\ recommendations' = SetKey(recommendations, p_symbols[p_i], PortfolioEntry(o))
            /\ p_calls' = Append(p_calls, [symbol |-> p_symbols[p_i], raised |-> o.raised,
                                           rec |-> o.rec])
    /\ p_i' = p_i + 1
    /\ UNCHANGED <<ppc, p_symbols, p_balance, p_cash, p_result>>
    /\ UNCHANGED nonPortVars

\* After the loop: the portfolio-level query and the returned dictionary.
PortfolioReturn ==
    /\ ppc = "loop"
    /\ p_i > Len(p_symbols)
    /\ \E advice \in {"text", "query_error", "none"} :
         p_result' = [symbols |-> recommendations, portfolio_advice |-> advice,
                      total_balance |-> p_balance, available_cash |-> p_cash]
    /\ ppc' = "returned"
    /\ UNCHANGED <<p_symbols, p_balance, p_cash, p_i, p_calls, recommendations>>
    /\ UNCHANGED nonPortVars

NextPort ==
    \/ \E symbols \in SymbolLists, cash \in {1, 10, MaxCashCents} :
          OptimizePortfolio(symbols, MaxCashCents, cash)
    \/ PortfolioSymbol
    \/ PortfolioReturn

\* ----------------------------------------------------------------------
\* Session lifecycle of the operations that take an optional session
\* (embeddings.py, intelligence.py, retrieval.py)
\* ----------------------------------------------------------------------
MaxSessionCalls == 2
MaxNestedCalls == 2

SessionOps ==
    {"store_chunk_embedding", "semantic_search", "find_similar_chunks",
     "ingest_document", "query", "retrieve_trading_insights",
     "retrieve_recent_signals", "retrieve_backtest_results"}

\* The operation an operation calls with its own session: ingest_document
\* calls store_chunk_embedding(session=session) per chunk, query calls
\* retrieve_context(session=session), which passes it to semantic_search.
CalleeOf(op) ==
    CASE op = "ingest_document" -> {"store_chunk_embedding"}
      [] op = "query" -> {"semantic_search"}
      [] OTHER -> {}

\* How the try block of an operation can end: "return", "caught" (its except
\* clause returns a value) or "raise" (the exception leaves the operation:
\* no except clause, a re-raise, or session.rollback() failing in the clause).
BodyOutcomes(op) ==
    CASE op \in {"semantic_search", "find_similar_chunks", "query"} -> {"return", "caught"}
      [] op = "store_chunk_embedding" -> {"return", "caught", "raise"}
      [] OTHER -> {"return", "raise"}

\* What an operation does with an exception of its callee: query's except
\* clause returns the error response, ingest_document re-raises.
HandlerOutcome(op) == IF op = "query" THEN "caught" ELSE "raise"

\* Every operation closes its session in finally, given one or not.
ShouldCloseAlways(session_given) == TRUE

\* should_close = False; if session is None: session = Session(); should_close = True
ShouldClose(session_given) == ~session_given

NewSession(internal) == [internal |-> internal, open |-> TRUE, close_calls |-> 0]

\* session.close()
CloseSession(ss, sid) ==
    [ss EXCEPT ![sid] = [@ EXCEPT !.open = FALSE, !.close_calls = @ + 1]]

NoLastCall == [op |-> "none", session_given |-> FALSE, sid |-> 0, outcome |-> "none"]

InitSessionOff ==
    /\ call_stack = <<>>
    /\ sessions = <<>>
    /\ calls_done = MaxSessionCalls
    /\ last_call = NoLastCall

InitSession ==
    /\ call_stack = <<>>
    /\ sessions = <<>>
    /\ calls_done = 0
    /\ last_call = NoLastCall

\* A caller calls op with a session of its own or with session=None.
SessionCall(op, session_given) ==
    /\ call_stack = <<>>
    /\ calls_done < MaxSessionCalls
    /\ sessions' = Append(sessions, NewSession(~session_given))
    /\ call_stack' = <<[op |-> op, session_given |-> session_given,
                        sid |-> Len(sessions) + 1,
                        should_close |-> ShouldClose(session_given),
                        pc |-> "body", outcome |-> "none", nested |-> 0]>>
    /\ UNCHANGED <<calls_done, last_call>>
    /\ UNCHANGED nonSessionVars

\* Inside its try block the operation calls its callee with session=session.
SessionNestedCall ==
    /\ call_stack # <<>>
    /\ LET top == call_stack[Len(call_stack)]
       IN  /\ top.pc = "body"
           /\ top.nested < MaxNestedCalls
           /\ \E op \in CalleeOf(top.op) :
                 call_stack' =
                     Append([call_stack EXCEPT ![Len(call_stack)].nested = @ + 1],
                            [op |-> op, session_given |-> TRUE, sid |-> top.sid,
                             should_close |-> ShouldClose(TRUE),
                             pc |-> "body", outcome |-> "none", nested |-> 0])
    /\ UNCHANGED <<sessions, calls_done, last_call>>
    /\ UNCHANGED nonSessionVars

\* The try block (with its except clause, if any) ends.
SessionBodyEnd ==
    /\ call_stack # <<>>
    /\ call_stack[Len(call_stack)].pc = "body"
    /\ \E out \in BodyOutcomes(call_stack[Len(call_stack)].op) :
          call_stack' = [call_stack EXCEPT ![Len(call_stack)].pc = "finally",
                                           ![Len(call_stack)].outcome = out]
    /\ UNCHANGED <<sessions, calls_done, last_call>>
    /\ UNCHANGED nonSessionVars

\* finally: if should_close: session.close(); then the operation is left.
\* An exception that leaves a callee enters the caller's except clause.
SessionFinally ==
    /\ call_stack # <<>>
    /\ LET n == Len(call_stack)
           top == call_stack[n]
           rest == SubSeq(call_stack, 1, n - 1)
       IN  /\ top.pc = "finally"
           /\ sessions' = IF top.should_close THEN CloseSession(sessions, top.sid)
                          ELSE sessions
           /\ IF rest = <<>>
              THEN /\ call_stack' = <<>>
                   /\ calls_done' = calls_done + 1
                   /\ last_call' = [op |-> top.op, session_given |-> top.session_given,
                                    sid |-> top.sid, outcome |-> top.outcome]
              ELSE /\ call_stack' =
                         IF top.outcome = "raise"
                         THEN [rest EXCEPT ![n - 1].pc = "finally",
                                           ![n - 1].outcome = HandlerOutcome(rest[n - 1].op)]
                         ELSE rest
                   /\ UNCHANGED <<calls_done, last_call>>
    /\ UNCHANGED nonSessionVars

NextSession ==
    \/ \E op \in SessionOps, session_given \in BOOLEAN : SessionCall(op, session_given)
    \/ SessionNestedCall
    \/ SessionBodyEnd
    \/ SessionFinally

\* ----------------------------------------------------------------------
\* RetrievalService.rerank_results (retrieval.py)
\* ----------------------------------------------------------------------
MaxResults == 3

\* Similarities (in tenths; 1 - cosine distance can be negative or zero) and
\* creation dates of the results handed to rerank_results.
RerankSimilarities == {-5, -2, 0, 6, 9}
RerankDates == {1, 2}
RerankMethods == {"similarity", "recency", "hybrid", "other"}

RerankResult(i, sim, date) ==
    [chunk_id |-> i, doc_type |-> "signal", symbol |-> "BTC", timeframe |-> "1h",
     similarity |-> sim, created_at |-> date]

\* The result lists: chunk ids are the positions in the list.
RerankInputs ==
    UNION {{[i \in 1 .. n |-> RerankResult(i, f[i][1], f[i][2])] :
              f \in [1 .. n -> RerankSimilarities \X RerankDates]} : n \in 0 .. MaxResults}

\* sorted(results, key=lambda x: x.get("created_at", ""), reverse=True)
RECURSIVE SortedByRecency(_)
SortedByRecency(res) ==
    IF res = <<>> THEN <<>>
    ELSE LET top == CHOOSE i \in 1 .. Len(res) :
                       /\ \A j \in 1 .. Len(res) : res[j].created_at <= res[i].created_at
                       /\ \A j \in 1 .. i - 1 : res[j].created_at < res[i].created_at
             rest == [j \in 1 .. Len(res) - 1 |-> IF j < top THEN res[j] ELSE res[j + 1]]
         IN  <<res[top]>> \o SortedByRecency(rest)

\* rerank_results(query, results, method)
RerankResults(res, method) ==
    CASE method = "similarity" -> res
      [] method = "recency" -> SortedByRecency(res)
      [] method = "hybrid" -> RerankHybrid(res)
      [] OTHER -> res

InitRerankOff ==
    /\ kpc = "off"
    /\ k_method = "none"
    /\ k_results = <<>>
    /\ k_returned = <<>>

InitRerank ==
    /\ kpc = "idle"
    /\ k_method = "none"
    /\ k_results = <<>>
    /\ k_returned = <<>>

CallRerankResults(res, method) ==
    /\ kpc = "idle"
    /\ k_method' = method
    /\ k_results' = res
    /\ k_returned' = RerankResults(res, method)
    /\ kpc' = "returned"
    /\ UNCHANGED nonRerankVars

NextRerank ==
    \E res \in RerankInputs, method \in RerankMethods : CallRerankResults(res, method)

\* ----------------------------------------------------------------------
\* RetrievalService.format_context_for_prompt (retrieval.py)
\* ----------------------------------------------------------------------
MaxFormatResults == 3

\* Lengths of the content of a result and values of max_tokens.
ContentLengths == {0, 20, 100}
MaxTokenValues == {0, 12, 20, 30, 70, 1000}

FormatResult(len) ==
    [doc_type |-> "signal", symbol |-> "BTC", content_len |-> len]
FormatInputs ==
    UNION {[1 .. n -> {FormatResult(len) : len \in ContentLengths}] :
              n \in 0 .. MaxFormatResults}

\* len(str(i))
DecimalLen(i) == IF i < 10 THEN 1 ELSE 2
\* len(doc_type), len(symbol)
WordLen(w) ==
    CASE w = "signal" -> 6
      [] w = "BTC" -> 3
      [] OTHER -> 0

\* len(part) for part = f"\n[Context {i} - {doc_type.upper()} - {symbol} -
\* Relevance: {similarity:.2f}]\n{content}\n": 33 fixed characters, the
\* number i, the two words, the four characters of a similarity 0.xx and the
\* content.
PartLen(i, result) ==
    33 + DecimalLen(i) + WordLen(result.doc_type) + WordLen(result.symbol) + 4
       + result.content_len

PartEntry(i, result) == [kind |-> "part", index |-> i, length |-> PartLen(i, result)]
\* "\n[Additional context truncated due to length...]"
MarkerEntry == [kind |-> "marker", index |-> 0, length |-> 48]

NoOutput == [placeholder |-> FALSE, parts |-> <<>>]
\* return "No relevant context found."
Placeholder == [placeholder |-> TRUE, parts |-> <<>>]

InitFormatIdle ==
    /\ f_results = <<>>
    /\ max_tokens = 0
    /\ f_i = 0
    /\ context_parts = <<>>
    /\ total_length = 0
    /\ f_output = NoOutput

InitFormatOff ==
    /\ fpc = "off"
    /\ InitFormatIdle

InitFormat ==
    /\ fpc = "idle"
    /\ InitFormatIdle

\* format_context_for_prompt(results, max_tokens) up to the loop.
FormatContextForPrompt(results, limit_tokens) ==
    /\ fpc = "idle"
    /\ f_results' = results
    /\ max_tokens' = limit_tokens
    /\ IF results = <<>>
       THEN /\ f_output' = Placeholder
            /\ fpc' = "returned"
            /\ f_i' = 0
       ELSE /\ fpc' = "loop"
            /\ f_i' = 1
            /\ UNCHANGED f_output
    /\ context_parts' = <<>>
    /\ total_length' = 0
    /\ UNCHANGED nonFormatVars

\* One iteration of for i, result in enumerate(results, 1).
FormatStep ==
    /\ fpc = "loop"
    /\ f_i <= Len(f_results)
    /\ LET part == PartEntry(f_i, f_results[f_i])
           max_chars == max_tokens * 4
       IN  IF total_length + part.length > max_chars
           THEN /\ context_parts' = Append(context_parts, MarkerEntry)
                /\ fpc' = "join"
                /\ UNCHANGED <<total_length, f_i>>
           ELSE /\ context_parts' = Append(context_parts, part)
                /\ total_length' = total_length + part.length
                /\ f_i' = f_i + 1
                /\ UNCHANGED fpc
    /\ UNCHANGED <<f_results, max_tokens, f_output>>
    /\ UNCHANGED nonFormatVars

\* return "\n".join(context_parts), after the break or the last result.
FormatReturn ==
    /\ \/ fpc = "join"
       \/ fpc = "loop" /\ f_i > Len(f_results)
    /\ f_output' = [placeholder |-> FALSE, parts |-> context_parts]
    /\ fpc' = "returned"
    /\ UNCHANGED <<f_results, max_tokens, f_i, context_parts, total_length>>
    /\ UNCHANGED nonFormatVars

NextFormat ==
    \/ \E results \in FormatInputs, limit_tokens \in MaxTokenValues :
          FormatContextForPrompt(results, limit_tokens)
    \/ FormatStep
    \/ FormatReturn

\* ----------------------------------------------------------------------
\* DataIngestionPipeline.batch_ingest_recent_trades / ingest_completed_trade
\* (ingestion.py)
\* ----------------------------------------------------------------------
MaxTrades == 2
MaxBatchRuns == 2

\* The completed trades inside the look-back window (the same for every run).
TradeIds == 1 .. MaxTrades

\* The orders in which session.query(Trade)....all() can return the trades.
TradeOrders ==
    {s \in [1 .. MaxTrades -> TradeIds] : \A i, j \in 1 .. MaxTrades : i # j => s[i] # s[j]}

\* The ways ingest_document(..., session=session) can end for one document:
\* it returns the document id or raises, and the Document row is committed or
\* not.  It returns an id without a committed row when the first
\* store_chunk_embedding rolled the session back, and it raises with a
\* committed row when a store_chunk_embedding committed and a later step failed.
IngestDocumentOutcomes ==
    {[returned |-> r, persisted |-> p] : r \in BOOLEAN, p \in BOOLEAN}

\* ingest_completed_trade(trade.id, session): the document id, or None when
\* anything inside the try block raised.
IngestCompletedTradeOutcomes ==
    {[doc_id |-> o.returned, persisted |-> o.persisted] : o \in IngestDocumentOutcomes}
    \cup {[doc_id |-> FALSE, persisted |-> FALSE]}

\* existing_trade_ids: doc.metadata["trade_id"] of the trade_analysis
\* documents created inside the window.
ExistingTradeIds(d) == {t \in TradeIds : d[t] > 0}

InitTradeIdle ==
    /\ existing_trade_ids = {}
    /\ todo = <<>>
    /\ count = 0
    /\ newly_persisted = 0
    /\ runs = <<>>

InitTradeOff ==
    /\ tpc = "off"
    /\ docs = [t \in TradeIds |-> 0]
    /\ InitTradeIdle

\* Before the first run some trades may have a trade_analysis document.
InitTrade ==
    /\ tpc = "idle"
    /\ docs \in [TradeIds -> {0, 1}]
    /\ InitTradeIdle

\* batch_ingest_recent_trades(days, session) up to the loop; a failing query
\* ends in the except clause, which returns 0.
BatchIngestRecentTrades ==
    /\ tpc = "idle"
    /\ Len(runs) < MaxBatchRuns
    /\ \/ /\ \E order \in TradeOrders : todo' = order
          /\ existing_trade_ids' = ExistingTradeIds(docs)
          /\ tpc' = "loop"
          /\ UNCHANGED runs
       \/ /\ runs' = Append(runs, [returned |-> 0, persisted |-> 0])
          /\ UNCHANGED <<todo, existing_trade_ids, tpc>>
    /\ count' = 0
    /\ newly_persisted' = 0
    /\ UNCHANGED docs
    /\ UNCHANGED nonTradeVars

\* One iteration of for trade in trades.
BatchTrade ==
    /\ tpc = "loop"
    /\ todo # <<>>
    /\ LET trade == Head(todo)
       IN  IF trade \in existing_trade_ids
           THEN UNCHANGED <<docs, count, newly_persisted>>
           ELSE \E o \in IngestCompletedTradeOutcomes :
                   /\ docs' = IF o.persisted THEN [docs EXCEPT ![trade] = @ + 1] ELSE docs
                   /\ count' = IF o.doc_id THEN count + 1 ELSE count
                   /\ newly_persisted' =
                         IF o.persisted THEN newly_persisted + 1 ELSE newly_persisted
    /\ todo' = Tail(todo)
    /\ UNCHANGED <<tpc, existing_trade_ids, runs>>
    /\ UNCHANGED nonTradeVars

\* return count
BatchReturn ==
    /\ tpc = "loop"
    /\ todo = <<>>
    /\ runs' = Append(runs, [returned |-> count, persisted |-> newly_persisted])
    /\ tpc' = "idle"
    /\ UNCHANGED <<docs, existing_trade_ids, todo, count, newly_persisted>>
    /\ UNCHANGED nonTradeVars

NextTrade ==
    \/ BatchIngestRecentTrades
    \/ BatchTrade
    \/ BatchReturn

\* ----------------------------------------------------------------------
\* Specifications
\* ----------------------------------------------------------------------
Init == InitIngest /\ InitLimOff /\ InitChunkOff /\ InitEmbedOff /\ InitSearchOff /\ InitQueryOff /\ InitRecOff /\ InitPortOff /\ InitSessionOff /\ InitRerankOff /\ InitFormatOff /\ InitTradeOff
Next == NextIngest
Spec == Init /\ [][Next]_vars

InitSpecLimiter == InitIngest /\ InitLimiter /\ InitChunkOff /\ InitEmbedOff /\ InitSearchOff /\ InitQueryOff /\ InitRecOff /\ InitPortOff /\ InitSessionOff /\ InitRerankOff /\ InitFormatOff /\ InitTradeOff
SpecLimiter == InitSpecLimiter /\ [][NextLimiter]_vars

InitSpecLimiterSeq == InitIngest /\ InitLimiter /\ InitChunkOff /\ InitEmbedOff /\ InitSearchOff /\ InitQueryOff /\ InitRecOff /\ InitPortOff /\ InitSessionOff /\ InitRerankOff /\ InitFormatOff /\ InitTradeOff
SpecLimiterSeq == InitSpecLimiterSeq /\ [][NextLimiterSeq]_vars

InitSpecChunk == InitIngest /\ InitLimOff /\ InitChunk /\ InitEmbedOff /\ InitSearchOff /\ InitQueryOff /\ InitRecOff /\ InitPortOff /\ InitSessionOff /\ InitRerankOff /\ InitFormatOff /\ InitTradeOff
SpecChunk == InitSpecChunk /\ [][NextChunk]_vars

InitSpecEmbed == InitIngest /\ InitLimOff /\ InitChunkOff /\ InitEmbed /\ InitSearchOff /\ InitQueryOff /\ InitRecOff /\ InitPortOff /\ InitSessionOff /\ InitRerankOff /\ InitFormatOff /\ InitTradeOff
SpecEmbed == InitSpecEmbed /\ [][NextEmbed]_vars

InitSpecSearch == InitIngest /\ InitLimOff /\ InitChunkOff /\ InitEmbedOff /\ InitSearch /\ InitQueryOff /\ InitRecOff /\ InitPortOff /\ InitSessionOff /\ InitRerankOff /\ InitFormatOff /\ InitTradeOff
SpecSearch == InitSpecSearch /\ [][NextSearch]_vars

InitSpecQuery == InitIngest /\ InitLimOff /\ InitChunkOff /\ InitEmbedOff /\ InitQuery /\ InitRecOff /\ InitPortOff /\ InitSessionOff /\ InitRerankOff /\ InitFormatOff /\ InitTradeOff
SpecQuery == InitSpecQuery /\ [][NextQuery]_vars

InitSpecRec ==
    InitIngest /\ InitLimOff /\ InitChunkOff /\ InitEmbedOff /\ InitSearchOff /\ InitQueryOff /\ InitRec /\ InitPortOff /\ InitSessionOff /\ InitRerankOff /\ InitFormatOff /\ InitTradeOff
SpecRec == InitSpecRec /\ [][NextRec]_vars

\* chunk_text runs on the calling thread: an iteration that can be taken is taken.
SpecChunkFair == SpecChunk /\ WF_vars(NextChunk)

InitSpecTrade == InitIngest /\ InitLimOff /\ InitChunkOff /\ InitEmbedOff /\ InitSearchOff /\ InitQueryOff /\ InitRecOff /\ InitPortOff /\ InitSessionOff /\ InitRerankOff /\ InitFormatOff /\ InitTrade
SpecTrade == InitSpecTrade /\ [][NextTrade]_vars

InitSpecFormat == InitIngest /\ InitLimOff /\ InitChunkOff /\ InitEmbedOff /\ InitSearchOff /\ InitQueryOff /\ InitRecOff /\ InitPortOff /\ InitSessionOff /\ InitRerankOff /\ InitFormat /\ InitTradeOff
SpecFormat == InitSpecFormat /\ [][NextFormat]_vars

InitSpecRerank == InitIngest /\ InitLimOff /\ InitChunkOff /\ InitEmbedOff /\ InitSearchOff /\ InitQueryOff /\ InitRecOff /\ InitPortOff /\ InitSessionOff /\ InitRerank /\ InitFormatOff /\ InitTradeOff
SpecRerank == InitSpecRerank /\ [][NextRerank]_vars

InitSpecSession == InitIngest /\ InitLimOff /\ InitChunkOff /\ InitEmbedOff /\ InitSearchOff /\ InitQueryOff /\ InitRecOff /\ InitPortOff /\ InitSession /\ InitRerankOff /\ InitFormatOff /\ InitTradeOff
SpecSession == InitSpecSession /\ [][NextSession]_vars

InitSpecPort == InitIngest /\ InitLimOff /\ InitChunkOff /\ InitEmbedOff /\ InitSearchOff /\ InitQueryOff /\ InitRecOff /\ InitPort /\ InitSessionOff /\ InitRerankOff /\ InitFormatOff /\ InitTradeOff
SpecPort == InitSpecPort /\ [][NextPort]_vars

\* ---------------------------------------------------------------- claims

\* C1: when store_chunk_embedding returned False for some chunk,
\* ingest_document does not return the document id as an ordinary success.
C1_NoSilentSuccess ==
    (ipc = "returned") => (\A i \in 1 .. Len(storeResults) : storeResults[i])

\* C2: whenever ingest_document raises, no Document row and no DocumentChunk
\* row created by the call remains committed.
C2_AtomicOnFailure ==
    (ipc = "raised") => (~committed.doc /\ committed.chunks = {})

C4_BoundaryAndRollover ==
    /\ [](AllIdle /\ recMinute[now.minute] = RATE_LIMIT_RPM
            => CanMakeRequest(minuteCache[MinuteKey(now)], dayCache[DayKey(now)])
                   = <<FALSE, "minute">>)
    /\ [][ (AllIdle /\ now'.minute = now.minute + 1
              /\ dayCache'[now'.day] < RATE_LIMIT_RPD)
            => CanMakeRequest(minuteCache'[MinuteKey(now')], dayCache'[DayKey(now')])
                   = <<TRUE, "none">> ]_vars

\* C4 witness: the minute bucket 0 took exactly RATE_LIMIT_RPM recorded requests,
\* a further call was rejected for the minute cap, and a call in bucket 1 went
\* through and was recorded.
C4_Witness ==
    /\ recMinute[0] = RATE_LIMIT_RPM
    /\ now.minute = 1
    /\ recMinute[1] = 1
    /\ \E w, v \in Workers : lres[w] = "rate_minute" /\ lres[v] = "ok"

\* C5: in every interleaving the network calls made within one minute bucket
\* never exceed RATE_LIMIT_RPM and those within one day bucket never exceed
\* RATE_LIMIT_RPD.
C5_CapsEnforced ==
    /\ \A m \in 0 .. MaxMinute : netMinute[m] <= RATE_LIMIT_RPM
    /\ \A d \in 0 .. MaxDay : netDay[d] <= RATE_LIMIT_RPD

\* Concatenation of the token windows with the first `overlap` tokens of every
\* window after the first removed.
RECURSIVE DropOverlapConcat(_, _)
DropOverlapConcat(ws, overlap) ==
    IF ws = <<>> THEN <<>>
    ELSE DropOverlapConcat(SubSeq(ws, 1, Len(ws) - 1), overlap)
         \o (IF Len(ws) = 1 THEN ws[1]
             ELSE SubSeq(ws[Len(ws)], overlap + 1, Len(ws[Len(ws)])))

\* C6: for 0 <= chunk_overlap < chunk_size the chunks returned by chunk_text are
\* windows over the token sequence: dropping the first chunk_overlap tokens of
\* every chunk after the first and concatenating in chunk_index order gives the
\* token sequence back, consecutive windows share exactly chunk_overlap tokens,
\* and no window has more than chunk_size tokens.
C6_ChunkCoverage ==
    (cpc = "done" /\ chunk_overlap < chunk_size) =>
        LET ws == loop.windows
            n == Len(ws)
        IN  /\ Len(loop.chunks) = n
            /\ DropOverlapConcat(ws, chunk_overlap) = tokens
            /\ \A i \in 1 .. n :
                  /\ Len(ws[i]) <= chunk_size
                  /\ loop.chunks[i].chunk_index = i - 1
                  /\ loop.chunks[i].token_count = Len(ws[i])
                  /\ ws[i] = SubSeq(tokens, loop.starts[i] + 1, loop.starts[i] + Len(ws[i]))
            /\ \A i \in 1 .. n - 1 :
                  (loop.starts[i] + Len(ws[i])) - loop.starts[i + 1] = chunk_overlap

\* C6 witness: a returned chunking of a text of MaxTextLen tokens into several
\* windows that overlap.
C6_Witness ==
    /\ cpc = "done"
    /\ chunk_overlap >= 1
    /\ chunk_overlap < chunk_size
    /\ Len(loop.chunks) >= 2
    /\ Len(tokens) = MaxTextLen

\* C7 as stated: the chunk count is non-decreasing in the length of the input
\* text, and every non-empty text of at most chunk_size tokens gives exactly one
\* chunk (chunk_index 0).
C7_CountAsStated ==
    (cpc = "done" /\ chunk_overlap < chunk_size) =>
        /\ (text # <<>> /\ Len(Encode(text)) <= chunk_size)
               => (Len(loop.chunks) = 1 /\ loop.chunks[1].chunk_index = 0)
        /\ \A t \in Texts :
               Len(t) <= Len(text)
               => Len(ChunkText(t, chunk_size, chunk_overlap).chunks) <= Len(loop.chunks)

\* C7 amended: for every call of chunk_text that returns, the chunk count is
\* non-decreasing in the number of tokens of the cleaned text; a text whose
\* cleaned form has between 1 and chunk_size tokens gives exactly one chunk
\* (chunk_index 0), and a blank text or one whose cleaned form is empty gives none.
C7_CountByCleanTokens ==
    (cpc = "done") =>
        /\ (Len(TokensOf(text)) >= 1 /\ Len(TokensOf(text)) <= chunk_size)
               => (Len(loop.chunks) = 1 /\ loop.chunks[1].chunk_index = 0)
        /\ (Len(TokensOf(text)) = 0) => loop.chunks = <<>>
        /\ \A t \in Texts :
               Len(TokensOf(t)) <= Len(TokensOf(text))
               => LET r == ChunkText(t, chunk_size, chunk_overlap)
                  IN  r.done /\ Len(r.chunks) <= Len(loop.chunks)

\* C7 witness: a returned call on a text of more than chunk_size tokens with
\* several chunks, the sizes overlapping.
C7_Witness ==
    /\ cpc = "done"
    /\ Len(tokens) > chunk_size
    /\ chunk_overlap >= 1
    /\ Len(loop.chunks) >= 2

\* C8: a DocumentProcessor with chunk_overlap >= chunk_size never starts
\* chunking a text: the loop is not entered and no chunk is produced.
C8_FailFast ==
    (cpc = "loop" \/ loop.chunks # <<>>) => chunk_overlap < chunk_size

\* C9: chunk_text returns for every text and every configuration the
\* constructor accepts.
C9_Terminates == <>(cpc = "done")

\* C10: generate_embeddings_batch returns exactly one vector per input text,
\* the i-th vector being the one of the i-th text (or the substitute of its
\* failed batch), and every returned vector has the length self.dimension.
C10_BatchOrderAndDimension ==
    (epc = "done") =>
        /\ Len(embeddings) = Len(texts)
        /\ \A i \in 1 .. Len(embeddings) :
              /\ Len(embeddings[i]) = dimension
              /\ i \in failed => embeddings[i] = ZeroVector(dimension)
              /\ i \notin failed
                    => \A j \in 1 .. Len(embeddings[i]) :
                          embeddings[i][j] = TextCode(FillBlank(texts[i]))

\* The iterations that are not recorded belong to loops whose step is not
\* positive, which never leave the loop.
SpinOnlyWithoutProgress ==
    (cpc = "loop" /\ Len(loop.chunks) >= MaxLoopSteps)
        => WindowStep(chunk_size, chunk_overlap) <= 0

\* C11: an empty or whitespace-only text gets the all-zero vector of
\* self.dimension without a backend call: as the result of generate_embedding,
\* and at the position of every blank entry of the list given to
\* generate_embeddings_batch; no blank text is ever given to the backend and a
\* list of blank texts alone cannot make the call raise.
C11_BlankToZeroVector ==
    /\ \A t \in sent : ~IsBlank(t)
    /\ (epc = "single_done" /\ IsBlank(texts[1])) => embedding = ZeroVector(dimension)
    /\ (epc = "done")
          => \A i \in 1 .. Len(texts) :
                IsBlank(texts[i]) => embeddings[i] = ZeroVector(dimension)

\* Positions i and j of texts belong to the same batch of the range loop.
SameBatch(i, j) == (i - 1) \div batch_size = (j - 1) \div batch_size

\* C12: on the remote backend generate_embeddings_batch never raises; a
\* failed request puts the zero vector of self.dimension at exactly the
\* positions of its batch, the later batches are still requested, and the
\* vectors of the batches that succeeded are the backend's, at the positions
\* of their texts.
C12_RemoteBatchDegrades ==
    ~use_local =>
        /\ epc # "raised"
        /\ epc = "batch" => Len(embeddings) = batch_i
        /\ epc = "done" =>
              /\ Len(embeddings) = Len(texts)
              /\ \A i \in 1 .. Len(texts) :
                    /\ FillBlank(texts[i]) \in sent
                    /\ i \in failed => embeddings[i] = ZeroVector(dimension)
                    /\ i \notin failed
                          => embeddings[i] = BackendEmbed(FillBlank(texts[i]), model_dim)
                    /\ \A j \in 1 .. Len(texts) :
                          (i \in failed /\ SameBatch(i, j)) => j \in failed

\* C12 witness: a remote call has returned with a failed batch followed by a
\* batch that succeeded.
C12_Witness ==
    /\ epc = "done"
    /\ ~use_local
    /\ \E i, j \in 1 .. Len(texts) : i < j /\ i \in failed /\ j \notin failed

C16_FiltersConjunctionAndKeys ==
    (spc = "done") =>
        /\ \A i \in 1 .. Len(s_results) :
              \A key \in DOMAIN s_call.filters \cap SupportedKeys :
                 s_results[i][key] = s_call.filters[key]
        /\ (DOMAIN s_call.filters \subseteq SupportedKeys) \/ ~s_executed

\* C15: store_chunk_embedding ends by returning a boolean, and it returns
\* True only when the embedding of the chunk it was called for has been
\* committed to the store.
C15_StoreResultTruthful ==
    /\ Len(storeResults) = k
    /\ \A i \in 1 .. Len(storeResults) :
          storeResults[i] => (i - 1) \in committed.emb

\* C14: a semantic_search whose store raises ends retrieve_context with an
\* empty list and without an exception, and when every search of a query
\* raised in the store, query returns a response (answer, sources,
\* context_used, response_time_ms) with no sources and context_used = 0.
C14_RetrievalDegrades ==
    /\ \A i \in 1 .. Len(search_log) :
          ~search_log[i].executed => (~search_log[i].raised /\ search_log[i].n = 0)
    /\ (/\ qpc = "returned"
        /\ search_log # <<>>
        /\ \A i \in 1 .. Len(search_log) : ~search_log[i].executed)
          => /\ q_response.kind \in {"ok", "error"}
             /\ q_response.sources = <<>>
             /\ q_response.context_used = 0

\* C14 witness: query has returned its ordinary response after two searches
\* that both failed on a store holding rows the searches would have returned.
C14_Witness ==
    /\ qpc = "returned"
    /\ q_response.kind = "ok"
    /\ Len(search_log) = 2
    /\ \A i \in 1 .. Len(search_log) : ~search_log[i].executed
    /\ \E row \in rows : row.emb /\ row.sim >= RetrieveThreshold /\ row.doc_type = "signal"
    /\ q_args.top_k > 0
    /\ q_args.symbol = ""

\* C17: when the generation backend raises, the answer is the error text of
\* _generate_response and query returns its ordinary response, whose sources
\* are the retrieved, re-ranked chunks and whose context_used is their number.
C17_GenerationFailureContained ==
    (qpc = "returned" /\ gen_raised) =>
        /\ answer = "gen_error"
        /\ q_response.kind = "ok"
        /\ q_response.answer = "gen_error"
        /\ q_response.sources = Take(RerankHybrid(all_results), q_args.top_k)
        /\ q_response.context_used = Len(q_response.sources)

\* C17 witness: a query whose generation backend raised has returned with
\* sources.
C17_Witness ==
    /\ qpc = "returned"
    /\ gen_raised
    /\ q_response.sources # <<>>

\* C18: the position size of a recommendation is exactly available_cash times
\* 0.02 for risk low, 0.03 for medium and 0.05 for high (in cents: 100 times
\* the size equals cash times the percentage), where the cash is
\* account_balance when available_cash is not given.
C18_ExactTierSizing ==
    (rpc = "returned") =>
        /\ cash_used = (IF available_cash = 0 THEN account_balance ELSE available_cash)
        /\ 100 * recommendation.position_size_usd
              = cash_used * (CASE recommendation.risk_assessment = "low" -> 2
                               [] recommendation.risk_assessment = "medium" -> 3
                               [] recommendation.risk_assessment = "high" -> 5)

\* C18 amended: the position size is available_cash times the tier's rate
\* rounded to two decimals: it differs from the exact product by at most half
\* a cent.
C18_TierSizingRounded ==
    (rpc = "returned") =>
        /\ cash_used = (IF available_cash = 0 THEN account_balance ELSE available_cash)
        /\ LET exact == cash_used * (CASE recommendation.risk_assessment = "low" -> 2
                                       [] recommendation.risk_assessment = "medium" -> 3
                                       [] recommendation.risk_assessment = "high" -> 5)
               got == 100 * recommendation.position_size_usd
           IN  /\ got - exact <= 50
               /\ exact - got <= 50

\* C18 witness: a high-risk recommendation for the default cash (the account
\* balance) whose exact size is not a whole number of cents.
C18_Witness ==
    /\ rpc = "returned"
    /\ available_cash = 0
    /\ recommendation.risk_assessment = "high"
    /\ (account_balance * 5) % 100 # 0
    /\ recommendation.position_size_usd > 0

\* C19: the action is BUY when the lower-cased answer contains "buy" and not
\* "don't buy", otherwise SELL when it contains "sell", otherwise HOLD.
C19_ActionHeuristic ==
    (rpc = "returned") =>
        LET lower == Lower(r_answer.text)
            buy == \E i \in 1 .. Len(lower) - 2 : SubSeq(lower, i, i + 2) = <<"b", "u", "y">>
            dont == \E i \in 1 .. Len(lower) - 8 : SubSeq(lower, i, i + 8) = <<"d", "o", "n", "'", "t", " ", "b", "u", "y">>
            sell == \E i \in 1 .. Len(lower) - 3 : SubSeq(lower, i, i + 3) = <<"s", "e", "l", "l">>
        IN  recommendation.action =
                (IF buy /\ ~dont THEN "BUY" ELSE IF sell THEN "SELL" ELSE "HOLD")

\* C19 witness: an answer with "don't buy" and "Sell" has been parsed to SELL.
C19_Witness ==
    /\ rpc = "returned"
    /\ r_answer.text = <<"d", "o", "n", "'", "t", " ", "b", "u", "y">> \o <<"S", "e", "l", "l">>
    /\ recommendation.action = "SELL"

C21_ConfidenceInUnitRange ==
    (rpc = "returned") =>
        /\ 0 <= recommendation.confidence.num
        /\ recommendation.confidence.num <= recommendation.confidence.den

\* The last call made for symbol s: the one whose entry the mapping keeps.
LastCallFor(s) ==
    p_calls[CHOOSE i \in 1 .. Len(p_calls) :
                /\ p_calls[i].symbol = s
                /\ \A j \in i + 1 .. Len(p_calls) : p_calls[j].symbol # s]

\* C22: when optimize_portfolio returns, get_trading_recommendation was
\* called once for every requested symbol in order (a raising call does not
\* end the loop), the 'symbols' mapping has an entry for every requested
\* symbol, the entry of a symbol whose call raised is {error, action: HOLD},
\* and every other entry is the recommendation its own call returned.
C22_PartialFailureTolerated ==
    (ppc = "returned") =>
        /\ Len(p_calls) = Len(p_symbols)
        /\ \A i \in 1 .. Len(p_symbols) : p_calls[i].symbol = p_symbols[i]
        /\ DOMAIN p_result.symbols = {p_symbols[i] : i \in 1 .. Len(p_symbols)}
        /\ \A s \in DOMAIN p_result.symbols :
              p_result.symbols[s] =
                  IF LastCallFor(s).raised THEN ErrorEntry ELSE LastCallFor(s).rec

\* C22 witness: a returned portfolio of two symbols where the call for the
\* first raised and the call for the second returned a recommendation.
C22_Witness ==
    /\ ppc = "returned"
    /\ Len(p_symbols) = 2
    /\ p_symbols[1] # p_symbols[2]
    /\ p_calls[1].raised
    /\ ~p_calls[2].raised
    /\ p_result.symbols[p_symbols[1]] = ErrorEntry
    /\ p_result.symbols[p_symbols[2]] = p_calls[2].rec

\* C23: when query has returned, on the ordinary path and on the path of the
\* error response alike, exactly one QueryHistory record was written, and it
\* holds the answer returned, the ids and similarity scores of the returned
\* sources, and the generation backend that was actually used.
C23_OneAuditRecord ==
    (qpc = "returned") =>
        /\ Len(audit) = 1
        /\ audit[1].response = q_response.answer
        /\ Len(audit[1].chunks) = Len(q_response.sources)
        /\ \A i \in 1 .. Len(audit[1].chunks) :
              /\ audit[1].chunks[i].chunk_id = q_response.sources[i].chunk_id
              /\ audit[1].chunks[i].similarity = q_response.sources[i].similarity
        /\ audit[1].model_used =
              (IF q_args.use_local THEN "local_model" ELSE "openai_model")

\* C24: a session supplied by the caller is never closed by the operation or
\* by an operation it calls; a session opened internally is closed at most
\* once, and once the operation is left (by return or by exception) it has
\* been closed exactly once and is not open.
C24_SessionLifecycle ==
    /\ \A sid \in 1 .. Len(sessions) :
          /\ ~sessions[sid].internal =>
                (sessions[sid].open /\ sessions[sid].close_calls = 0)
          /\ sessions[sid].close_calls <= 1
    /\ (call_stack = <<>>) =>
          \A sid \in 1 .. Len(sessions) :
              sessions[sid].internal =>
                  (~sessions[sid].open /\ sessions[sid].close_calls = 1)

\* C24 witness: ingest_document, called without a session, was left by an
\* exception and its session is closed; before it an operation ran on a
\* session of its caller, which is still open.
C24_Witness ==
    /\ call_stack = <<>>
    /\ last_call.op = "ingest_document"
    /\ ~last_call.session_given
    /\ last_call.outcome = "raise"
    /\ ~sessions[last_call.sid].open
    /\ \E sid \in 1 .. Len(sessions) : ~sessions[sid].internal /\ sessions[sid].open

\* The largest similarity of the results handed in.
InputMaxSimilarity ==
    CHOOSE m \in {k_results[i].similarity : i \in 1 .. Len(k_results)} :
        \A i \in 1 .. Len(k_results) : k_results[i].similarity <= m

\* The returned list holds the results handed in (chunk ids are positions),
\* every field kept.
ReturnedArePermutation ==
    /\ Len(k_returned) = Len(k_results)
    /\ {k_returned[i].chunk_id : i \in 1 .. Len(k_returned)} = 1 .. Len(k_results)
    /\ \A i \in 1 .. Len(k_returned) :
          \A key \in DOMAIN k_results[k_returned[i].chunk_id] :
              k_returned[i][key] = k_results[k_returned[i].chunk_id][key]

\* The returned list is the stable sort of the input by descending similarity.
ReturnedStableBySimilarity ==
    /\ ReturnedArePermutation
    /\ \A i, j \in 1 .. Len(k_returned) :
          i < j =>
             \/ k_returned[i].similarity > k_returned[j].similarity
             \/ /\ k_returned[i].similarity = k_returned[j].similarity
                /\ k_returned[i].chunk_id < k_returned[j].chunk_id

\* The returned list is the input in its order.
ReturnedInInputOrder ==
    /\ ReturnedArePermutation
    /\ \A i \in 1 .. Len(k_returned) : k_returned[i].chunk_id = i

\* C25 as stated: with method 'hybrid' every result of a non-empty list gets
\* combined_score = 0.6 * (similarity / max similarity) + 0.4 * 0.5 and the
\* list returned is the stable sort by descending similarity; 'similarity'
\* and an unknown method return the input order unchanged, and an empty list
\* is returned as is.
C25_HybridAsStated ==
    (kpc = "returned") =>
        /\ (k_method = "hybrid" /\ k_results # <<>>) =>
              /\ InputMaxSimilarity # 0
              /\ \A i \in 1 .. Len(k_returned) :
                    k_returned[i].combined_score.num * 10 * InputMaxSimilarity =
                        (6 * k_returned[i].similarity + 2 * InputMaxSimilarity)
                            * k_returned[i].combined_score.den
              /\ ReturnedStableBySimilarity
        /\ (k_method \in {"similarity", "other"}) => k_returned = k_results
        /\ (k_results = <<>>) => k_returned = <<>>

\* C25 amended: the formula and the order by descending similarity hold when
\* the largest similarity is positive; when it is zero or negative every
\* result gets combined_score 0.2 and the input order is kept.
C25_HybridWhenMaxPositive ==
    (kpc = "returned") =>
        /\ (k_method = "hybrid" /\ k_results # <<>> /\ InputMaxSimilarity > 0) =>
              /\ \A i \in 1 .. Len(k_returned) :
                    k_returned[i].combined_score.num * 10 * InputMaxSimilarity =
                        (6 * k_returned[i].similarity + 2 * InputMaxSimilarity)
                            * k_returned[i].combined_score.den
              /\ ReturnedStableBySimilarity
        /\ (k_method = "hybrid" /\ k_results # <<>> /\ InputMaxSimilarity <= 0) =>
              /\ \A i \in 1 .. Len(k_returned) :
                    k_returned[i].combined_score.num * 10 =
                        2 * k_returned[i].combined_score.den
              /\ ReturnedInInputOrder
        /\ (k_method \in {"similarity", "other"}) => k_returned = k_results
        /\ (k_results = <<>>) => k_returned = <<>>

\* C25 witness: a hybrid re-ranking that moved a later result with a larger
\* similarity to the front and kept two results of equal similarity in their
\* input order.
C25_Witness ==
    /\ kpc = "returned"
    /\ k_method = "hybrid"
    /\ Len(k_results) = 3
    /\ InputMaxSimilarity > 0
    /\ k_returned[1].chunk_id = 3
    /\ k_returned[2].chunk_id = 1
    /\ k_returned[2].similarity = k_returned[3].similarity

\* The entries of results in the output, and their summed length.
IncludedParts == SelectSeq(f_output.parts, LAMBDA e : e.kind = "part")
RECURSIVE SumLengths(_)
SumLengths(entries) ==
    IF entries = <<>> THEN 0 ELSE Head(entries).length + SumLengths(Tail(entries))

\* C26: format_context_for_prompt returns the placeholder for empty results;
\* otherwise the included entries are results 1..m in order, their summed
\* length is at most max_tokens * 4, the truncation marker is appended
\* exactly when a result was left out, and the first result is included.
C26_FormatContext ==
    (fpc = "returned") =>
        IF f_results = <<>>
        THEN f_output = Placeholder
        ELSE /\ ~f_output.placeholder
             /\ \A i \in 1 .. Len(IncludedParts) :
                   IncludedParts[i] = PartEntry(i, f_results[i])
             /\ SumLengths(IncludedParts) <= max_tokens * 4
             /\ (\E i \in 1 .. Len(f_output.parts) : f_output.parts[i] = MarkerEntry)
                   <=> (Len(IncludedParts) < Len(f_results))
             /\ Len(IncludedParts) >= 1

\* The clauses of C26 without the last one hold in every returned call.
FormatPrefixWithinBudget ==
    (fpc = "returned" /\ f_results # <<>>) =>
        /\ \A i \in 1 .. Len(IncludedParts) :
              IncludedParts[i] = PartEntry(i, f_results[i])
        /\ SumLengths(IncludedParts) <= max_tokens * 4
        /\ (\E i \in 1 .. Len(f_output.parts) : f_output.parts[i] = MarkerEntry)
              <=> (Len(IncludedParts) < Len(f_results))

\* C27: with batch_ingest_recent_trades run sequentially over the same
\* trades, no trade has two trade_analysis documents, the count a run
\* returns is the number of trades that newly have a persisted document, and
\* every run after the first ingests nothing and returns 0.
C27_BatchIdempotent ==
    /\ \A t \in TradeIds : docs[t] <= 1
    /\ \A i \in 1 .. Len(runs) : runs[i].returned = runs[i].persisted
    /\ \A i \in 2 .. Len(runs) : runs[i].returned = 0 /\ runs[i].persisted = 0

\* No trade ever has two trade_analysis documents.
NoTradeIngestedTwice == \A t \in TradeIds : docs[t] <= 1

\* C28: when ingest_document has returned the document id, the Document row
\* and its DocumentChunk rows with chunk_index 0 .. n-1 are committed,
\* whatever the store_chunk_embedding calls returned.
C28_ReturnedMeansCommitted ==
    (ipc = "returned") =>
        /\ committed.doc
        /\ committed.chunks = 0 .. (n_chunks - 1)

\* C29: no recorded request is lost: whenever no record_request is in
\* progress, the minute counter of every minute bucket and the day counter of
\* every day bucket equal the number of requests recorded in that bucket.
C29_NoLostRecord ==
    AllIdle =>
        /\ \A m \in 0 .. MaxMinute : minuteCache[m] = recMinute[m]
        /\ \A d \in 0 .. MaxDay : dayCache[d] = recDay[d]

\* C29, second part: in every reachable state the day counter is at least the
\* counter of the current minute, as get_usage_stats reads them.
C29_DayAtLeastMinute ==
    dayCache[now.day] >= minuteCache[now.minute]

\* C29: both parts together.
C29_CountersExact == C29_NoLostRecord /\ C29_DayAtLeastMinute

====
